---- MODULE Spec2Model ----
(***************************************************************************)
(* Verification model of the orchestration core of claude-code-aad:        *)
(*   - DependencyGraph   (application/src/orchestration/dependency_graph.rs)*)
(*   - Orchestrator      (application/src/orchestration/orchestrator.rs)    *)
(*   - LoopEngine        (application/src/loop_engine/engine.rs)            *)
(*   - LoopState         (domain/src/entities/loop_state.rs)                *)
(* Hash-map iteration order is unspecified in the source; wherever a result *)
(* depends on it the order is an input chosen nondeterministically.         *)
(***************************************************************************)
EXTENDS Integers, Sequences, FiniteSets, TLC

\* ------------------------------------------------------------------ bounds
\* Longest prerequisite list a node may carry (duplicates are permitted).
MaxDeps == 2

\* Last instant of the logical clock.
MaxTime == 2

\* Largest max_retry_attempts tried.
MaxRetryAttempts == 1

\* Longest depends_on slice given to register_spec_with_dependencies.
MaxPrereqs == 1

\* Largest LoopEngine.max_retries tried, and the cap on a task's retry count.
MaxRetries == 1

\* ------------------------------------------------------------------ universe
SpecIds == {"SPEC-001", "SPEC-002", "SPEC-003"}

\* The dummy prerequisite used by Orchestrator::register_spec.
EmptyId == ""

NoCycle == <<>>

\* Session ids (uuid strings in the source).
SessionIds == {"sess-1", "sess-2"}

NoSession == "none"

Pending == "Pending"
Running == "Running"
Completed == "Completed"
TimedOut == "TimedOut"
Failed == "Failed"

\* Task ids; a task list holds any subset of them.
TaskIds == {"TASK-001", "TASK-002", "TASK-003"}

NoTask == "none"

NotCalled == "not called"

\* Status values of a Task; next_task only asks whether it is Completed.
TaskStatuses == {"Pending", "Completed"}

VARIABLES
    dependencies,         \* DependencyGraph.dependencies : SpecId -> Vec<SpecId>
    gres,                 \* outcome of the last DependencyGraph call
    config,               \* Orchestrator.config
    sessions,             \* Orchestrator.sessions : SessionId -> Session
    session_statuses,     \* Orchestrator.session_statuses
    session_start_times,  \* Orchestrator.session_start_times
    retry_counts,         \* Orchestrator.retry_counts
    now,                  \* the clock read by Instant::now()
    monitor,              \* monitor_loop: the events of its latest tick
    seq_fail,             \* history: failure calls on one session since its fresh start
    task_queue,           \* LoopState.task_queue
    current_task,         \* LoopState.current_task
    is_active,            \* LoopState.is_active
    loop_retry_counts,    \* LoopState.retry_counts
    max_retries,          \* LoopEngine.max_retries
    tasks,                \* the task list the caller passes to LoopEngine
    next_result,          \* what the last next_task call returned
    removing,             \* the remove_session call in flight, between two lock regions
    observed,             \* the last read-only call made by another task
    monitor_state,        \* monitor_loop: "running" until it breaks out of its loop
    emitted,              \* history: every event monitor_loop has handled so far
    ores,                 \* outcome of the last Orchestrator call that reports one
    state,                \* the OrchestratorState snapshot the orchestrate command keeps
    plan,                 \* waves of the dry-run plan printed last, NotCalled if none
    run,                  \* the run_loop call in progress or just returned, and its history
    workflow,             \* a Workflow entity: phases, current_phase, approvals
    task_dependencies,    \* the dependencies list of each Task entity
    spec,                 \* a Spec entity: phase and tasks
    eres,                 \* outcome of the last call on one of these entities
    inflight              \* per task of the runtime: the Orchestrator call it is inside

gvars == <<dependencies, gres>>

ovars == <<sessions, session_statuses, session_start_times, retry_counts>>

lvars == <<task_queue, current_task, is_active, loop_retry_counts, max_retries,
           tasks, next_result>>

cvars == <<removing, observed>>

xvars == <<monitor_state, emitted, ores>>

evars == <<workflow, task_dependencies, spec, eres>>

kvars == <<inflight>>

svars == <<state, plan, run, evars, kvars>>

nongraph == <<config, sessions, session_statuses, session_start_times, retry_counts,
              now, monitor, seq_fail, lvars, cvars, xvars, svars>>

vars == <<dependencies, gres, config, sessions, session_statuses, session_start_times,
          retry_counts, now, monitor, seq_fail, lvars, cvars, xvars, svars>>

\* ------------------------------------------------------------------ helpers
Range(s) == {s[i] : i \in 1..Len(s)}

\* All orders in which a hash map with key set S may be iterated.
IterOrders(S) ==
    {o \in [1..Cardinality(S) -> S] : \A i, j \in 1..Cardinality(S) : o[i] = o[j] => i = j}

\* Vec::retain(|d| d != x)
Retain(s, x) == SelectSeq(s, LAMBDA d : d /= x)

\* The slice starts at the root of the search, not at the revisited node (mutant).
PositionOfRoot(s, x) == 1

\* path.iter().position(|s| s == x).unwrap()
Position(s, x) == CHOOSE i \in 1..Len(s) : s[i] = x /\ \A j \in 1..(i - 1) : s[j] /= x

RECURSIVE Reverse(_)
Reverse(s) == IF s = <<>> THEN <<>> ELSE Append(Reverse(Tail(s)), Head(s))

\* Number of occurrences of x in s.
RECURSIVE Count(_, _)
Count(s, x) ==
    IF s = <<>> THEN 0 ELSE (IF Head(s) = x THEN 1 ELSE 0) + Count(Tail(s), x)

\* HashMap::entry(k).or_default()
OrDefault(g, k) == IF k \in DOMAIN g THEN g ELSE g @@ (k :> <<>>)

\* ------------------------------------------------------------------ DependencyGraph
\* dfs_cycle_detection: returns [visited, cycle]; cycle = NoCycle when none found.
RECURSIVE DfsNode(_, _, _, _, _)
RECURSIVE DfsDeps(_, _, _, _, _, _)
DfsDeps(g, deps, i, visited, rec_stack, path) ==
    IF i > Len(deps) THEN [visited |-> visited, cycle |-> NoCycle]
    ELSE LET dep == deps[i] IN
         IF dep \notin visited
         THEN LET r == DfsNode(g, dep, visited, rec_stack, path) IN
              IF r.cycle /= NoCycle THEN r
              ELSE DfsDeps(g, deps, i + 1, r.visited, rec_stack, path)
         ELSE IF dep \in rec_stack
              THEN [visited |-> visited,
                    cycle |-> SubSeq(path, Position(path, dep), Len(path))]
              ELSE DfsDeps(g, deps, i + 1, visited, rec_stack, path)

DfsNode(g, spec_id, visited, rec_stack, path) ==
    LET deps == IF spec_id \in DOMAIN g THEN g[spec_id] ELSE <<>> IN
    DfsDeps(g, deps, 1, visited \cup {spec_id}, rec_stack \cup {spec_id},
            Append(path, spec_id))

\* detect_cycle, iterating the keys in the order `ord`.
RECURSIVE DetectFrom(_, _, _, _)
DetectFrom(g, ord, i, visited) ==
    IF i > Len(ord) THEN NoCycle
    ELSE IF ord[i] \in visited THEN DetectFrom(g, ord, i + 1, visited)
         ELSE LET r == DfsNode(g, ord[i], visited, {}, <<>>) IN
              IF r.cycle /= NoCycle THEN r.cycle
              ELSE DetectFrom(g, ord, i + 1, r.visited)

DetectCycle(g, ord) == DetectFrom(g, ord, 1, {})

\* add_dependency without the rollback branch (mutant).
AddDependencyNoRollback(g, spec_id, depends_on, ord) ==
    LET g2 == OrDefault([OrDefault(g, spec_id) EXCEPT ![spec_id] = Append(@, depends_on)],
                        depends_on)
        cycle == DetectCycle(g2, ord)
    IN [graph |-> g2, ok |-> cycle = NoCycle, cycle |-> cycle]

\* add_dependency: push, ensure the prerequisite is a key, detect, roll back.
AddDependency(g, spec_id, depends_on, ord) ==
    LET g1 == [OrDefault(g, spec_id) EXCEPT ![spec_id] = Append(@, depends_on)]
        g2 == OrDefault(g1, depends_on)
        cycle == DetectCycle(g2, ord)
    IN IF cycle /= NoCycle
       THEN [graph |-> [g2 EXCEPT ![spec_id] = Retain(@, depends_on)],
             ok |-> FALSE, cycle |-> cycle]
       ELSE [graph |-> g2, ok |-> TRUE, cycle |-> NoCycle]

\* remove_dependency
RemoveDependency(g, spec_id, depends_on) ==
    IF spec_id \in DOMAIN g THEN [g EXCEPT ![spec_id] = Retain(@, depends_on)] ELSE g

\* in_degree of topological_sort: how many prerequisite-list entries name k.
AllDeps(g) == UNION {Range(g[k]) : k \in DOMAIN g}

RECURSIVE SumOver(_, _)
SumOver(S, f) ==
    IF S = {} THEN 0 ELSE LET x == CHOOSE y \in S : TRUE IN f[x] + SumOver(S \ {x}, f)

SortInDegree(g) ==
    [k \in DOMAIN g \cup AllDeps(g) |->
        SumOver(DOMAIN g, [a \in DOMAIN g |-> Count(g[a], k)])]

\* The inner loop of topological_sort: decrement each prerequisite in turn.
RECURSIVE SortRelax(_, _, _, _)
SortRelax(deps, i, in_degree, queue) ==
    IF i > Len(deps) THEN [in_degree |-> in_degree, queue |-> queue]
    ELSE LET dep == deps[i] IN
         IF dep \in DOMAIN in_degree
         THEN LET d == in_degree[dep] - 1 IN
              SortRelax(deps, i + 1, [in_degree EXCEPT ![dep] = d],
                        IF d = 0 THEN Append(queue, dep) ELSE queue)
         ELSE SortRelax(deps, i + 1, in_degree, queue)

\* The while-let loop of topological_sort.
RECURSIVE SortLoop(_, _, _, _)
SortLoop(g, in_degree, queue, result) ==
    IF queue = <<>> THEN result
    ELSE LET spec_id == Head(queue)
             r == SortRelax(IF spec_id \in DOMAIN g THEN g[spec_id] ELSE <<>>, 1,
                            in_degree, Tail(queue))
         IN SortLoop(g, r.in_degree, r.queue, Append(result, spec_id))

\* The same computation with the final reverse() forgotten (mutant).
TopologicalSortNoReverse(g, ord) ==
    LET cycle == DetectCycle(g, ord) IN
    IF cycle /= NoCycle THEN [ok |-> FALSE, order |-> <<>>, cycle |-> cycle]
    ELSE LET in_degree == SortInDegree(g)
             queue == SelectSeq(ord, LAMBDA k : in_degree[k] = 0)
         IN [ok |-> TRUE, order |-> SortLoop(g, in_degree, queue, <<>>),
             cycle |-> NoCycle]

\* topological_sort; `ord` is the iteration order of the in_degree map.
TopologicalSort(g, ord) ==
    LET cycle == DetectCycle(g, ord) IN
    IF cycle /= NoCycle THEN [ok |-> FALSE, order |-> <<>>, cycle |-> cycle]
    ELSE LET in_degree == SortInDegree(g)
             queue == SelectSeq(ord, LAMBDA k : in_degree[k] = 0)
         IN [ok |-> TRUE, order |-> Reverse(SortLoop(g, in_degree, queue, <<>>)),
             cycle |-> NoCycle]

\* Processing a wave clears every in-degree, whoever the dependents are (mutant).
WaveRelaxAll(g, in_degree, wave) ==
    [d \in DOMAIN in_degree |-> 0]

\* reverse_deps built without duplicates: one decrement per distinct edge (mutant).
WaveRelaxDedup(g, in_degree, wave) ==
    [d \in DOMAIN in_degree |->
        LET n == Cardinality(Range(wave) \cap Range(g[d])) IN
        IF in_degree[d] >= n THEN in_degree[d] - n ELSE 0]

\* get_parallel_groups: in_degree[k] = len of k's prerequisite list; processing
\* a wave member s decrements each dependent d once per entry of s in
\* reverse_deps, i.e. once per occurrence of s in d's list (saturating).
WaveRelax(g, in_degree, wave) ==
    [d \in DOMAIN in_degree |->
        LET n == SumOver(Range(wave), [s \in Range(wave) |-> Count(g[d], s)]) IN
        IF in_degree[d] >= n THEN in_degree[d] - n ELSE 0]

RECURSIVE WaveLoop(_, _, _, _, _)
WaveLoop(g, ord, in_degree, processed, waves) ==
    IF Cardinality(processed) >= Cardinality(DOMAIN g) THEN waves
    ELSE LET current_wave ==
                 SelectSeq(ord, LAMBDA k : in_degree[k] = 0 /\ k \notin processed)
         IN IF current_wave = <<>> THEN waves
            ELSE WaveLoop(g, ord, WaveRelax(g, in_degree, current_wave),
                          processed \cup Range(current_wave),
                          Append(waves, current_wave))

GetParallelGroups(g, ord) ==
    LET cycle == DetectCycle(g, ord) IN
    IF cycle /= NoCycle THEN [ok |-> FALSE, waves |-> <<>>, cycle |-> cycle]
    ELSE [ok |-> TRUE, cycle |-> NoCycle,
          waves |-> WaveLoop(g, ord, [k \in DOMAIN g |-> Len(g[k])], {}, <<>>)]

\* ------------------------------------------------------------------ graph actions
GRes(op, ok, a, b, order, waves, cycle) ==
    [op |-> op, ok |-> ok, spec_id |-> a, depends_on |-> b,
     order |-> order, waves |-> waves, cycle |-> cycle]

\* OrchestratorConfig::default()
DefaultConfig ==
    [max_retry_attempts |-> 3, session_timeout_secs |-> 3600, retry_delay_secs |-> 5]

EmptyMap == <<>>

\* No Orchestrator call has reported an outcome.
NoOutcome ==
    [op |-> "new", ok |-> TRUE, id |-> NoSession, spec_id |-> EmptyId, depends_on |-> <<>>,
     started |-> <<>>, cycle |-> NoCycle, held |-> {}, asleep |-> {}, err |-> "none"]

\* No remove_session call is in flight.
NotRemoving == [id |-> NoSession, pc |-> 0, held |-> {}]

\* No read-only call has been made.
NothingObserved == [op |-> "none", id |-> NoSession, torn |-> FALSE, result |-> NoSession]

\* OrchestratorState::new(spec_ids): every spec pending, no dependencies.
OrchestratorStateNew(spec_ids) ==
    [spec_ids |-> spec_ids, dependencies |-> EmptyMap, completed |-> <<>>, failed |-> <<>>,
     running |-> <<>>, pending |-> spec_ids]

\* Phase::all
PhaseAll == <<"Spec", "Tasks", "Tdd", "Review", "Retro", "Merge">>

\* Workflow::new / Workflow::with_phases for a non-empty list: the first phase
\* is current, every listed phase is unapproved.
WorkflowWithPhases(phases) ==
    [phases |-> phases, current_phase |-> phases[1],
     approvals |-> [p \in {phases[i] : i \in 1..Len(phases)} |-> FALSE]]

\* Spec::new: phase Spec, no tasks.
SpecNew == [phase |-> "Spec", tasks |-> <<>>]

\* No call on a Workflow, Task or Spec entity has returned yet.
NoEntityCall == [op |-> "none", ok |-> TRUE, arg |-> "none", from |-> "none"]

\* The tasks of the async runtime that call into one shared Orchestrator.
Procs == {"p1", "p2"}

\* A task that is inside no Orchestrator call.
NoCall == [op |-> "none", pc |-> 0, id |-> NoSession, seen |-> "none"]

\* No run_loop call has been made since the last other call on the engine.
RunIdle ==
    [pc |-> "idle", result |-> NotCalled, before |-> <<>>, enqueued |-> <<>>,
     currents |-> <<>>, saved |-> NotCalled, loaded |-> <<>>]

\* Orchestrator::new: every map empty; no snapshot of any spec yet.
OrchestratorNew ==
    /\ state = OrchestratorStateNew(<<>>)
    /\ plan = NotCalled
    /\ run = RunIdle
    /\ workflow = WorkflowWithPhases(PhaseAll)
    /\ task_dependencies = [t \in TaskIds |-> <<>>]
    /\ spec = SpecNew
    /\ eres = NoEntityCall
    /\ inflight = [p \in Procs |-> NoCall]
    /\ sessions = EmptyMap
    /\ session_statuses = EmptyMap
    /\ session_start_times = EmptyMap
    /\ retry_counts = EmptyMap
    /\ now = 0
    /\ monitor = <<>>
    /\ seq_fail = [id |-> NoSession, n |-> 0, restarts |-> 0]
    /\ removing = NotRemoving
    /\ observed = NothingObserved
    /\ monitor_state = "running"
    /\ emitted = {}
    /\ ores = NoOutcome

\* LoopState::new inside LoopEngine::new, called with no task list yet.
LoopEngineNew ==
    /\ task_queue = <<>>
    /\ current_task = NoTask
    /\ is_active = FALSE
    /\ loop_retry_counts = EmptyMap
    /\ max_retries = 3
    /\ tasks = EmptyMap
    /\ next_result = NotCalled

\* DependencyGraph::new
GraphNew ==
    /\ dependencies = EmptyMap
    /\ gres = GRes("new", TRUE, EmptyId, EmptyId, <<>>, <<>>, NoCycle)

GInit ==
    /\ GraphNew
    /\ config = DefaultConfig
    /\ OrchestratorNew
    /\ LoopEngineNew

GAddDependency ==
    \E a \in SpecIds, b \in SpecIds :
      /\ a \in DOMAIN dependencies => Len(dependencies[a]) < MaxDeps
      /\ \E ord \in IterOrders(DOMAIN dependencies \cup {a, b}) :
           LET r == AddDependency(dependencies, a, b, ord) IN
           /\ dependencies' = r.graph
           /\ gres' = GRes("add_dependency", r.ok, a, b, <<>>, <<>>, r.cycle)
           /\ UNCHANGED nongraph

GRemoveDependency ==
    \E a \in SpecIds, b \in SpecIds :
      /\ dependencies' = RemoveDependency(dependencies, a, b)
      /\ gres' = GRes("remove_dependency", TRUE, a, b, <<>>, <<>>, NoCycle)
      /\ UNCHANGED nongraph

GTopologicalSort ==
    \E ord \in IterOrders(DOMAIN dependencies) :
      LET r == TopologicalSort(dependencies, ord) IN
      /\ gres' = GRes("topological_sort", r.ok, EmptyId, EmptyId, r.order, <<>>, r.cycle)
      /\ UNCHANGED <<svars, dependencies, nongraph>>

GGetParallelGroups ==
    \E ord \in IterOrders(DOMAIN dependencies) :
      LET r == GetParallelGroups(dependencies, ord) IN
      /\ gres' = GRes("get_parallel_groups", r.ok, EmptyId, EmptyId, <<>>, r.waves, r.cycle)
      /\ UNCHANGED <<svars, dependencies, nongraph>>

GNext ==
    \/ GAddDependency
    \/ GRemoveDependency
    \/ GTopologicalSort
    \/ GGetParallelGroups

SpecGraph == GInit /\ [][GNext]_vars

\* ------------------------------------------------------------------ graph properties
\* b is reachable from a along prerequisite edges in one or more steps.
RECURSIVE ReachSet(_, _, _)
ReachSet(g, frontier, seen) ==
    LET next == UNION {IF n \in DOMAIN g THEN Range(g[n]) ELSE {} : n \in frontier} \ seen IN
    IF next = {} THEN seen ELSE ReachSet(g, next, seen \cup next)

Reaches(g, a) == ReachSet(g, {a}, {})

Acyclic(g) == \A a \in DOMAIN g : a \notin Reaches(g, a)

IndexOf(s, x) == CHOOSE i \in 1..Len(s) : s[i] = x

\* C1: for an acyclic graph topological_sort succeeds and returns every key
\* exactly once, each prerequisite before every node that depends on it.
C1_TopologicalOrder ==
    gres.op = "topological_sort" =>
      /\ gres.ok
      /\ Len(gres.order) = Cardinality(DOMAIN dependencies)
      /\ Range(gres.order) = DOMAIN dependencies
      /\ \A a \in DOMAIN dependencies : \A b \in Range(dependencies[a]) :
           IndexOf(gres.order, b) < IndexOf(gres.order, a)

C1_Witness ==
    /\ gres.op = "topological_sort"
    /\ gres.ok
    /\ Len(gres.order) = 3
    /\ \E a \in DOMAIN dependencies : Cardinality(Range(dependencies[a])) = 2

\* Wave index of a node in a list of waves.
WaveOf(waves, x) == CHOOSE i \in 1..Len(waves) : x \in Range(waves[i])

\* C2: for an acyclic graph get_parallel_groups returns pairwise disjoint
\* waves that hold every key exactly once, each prerequisite in a strictly
\* earlier wave than the nodes depending on it.
C2_ParallelWaves ==
    gres.op = "get_parallel_groups" =>
      /\ gres.ok
      /\ \A i \in 1..Len(gres.waves) :
           /\ Cardinality(Range(gres.waves[i])) = Len(gres.waves[i])
           /\ \A j \in 1..Len(gres.waves) :
                i /= j => Range(gres.waves[i]) \cap Range(gres.waves[j]) = {}
      /\ UNION {Range(gres.waves[i]) : i \in 1..Len(gres.waves)} = DOMAIN dependencies
      /\ \A a \in DOMAIN dependencies : \A b \in Range(dependencies[a]) :
           WaveOf(gres.waves, b) < WaveOf(gres.waves, a)

C2_Witness ==
    /\ gres.op = "get_parallel_groups"
    /\ gres.ok
    /\ Len(gres.waves) = 2
    /\ Len(gres.waves[2]) = 2
    /\ \E a \in DOMAIN dependencies : Len(dependencies[a]) = 2

\* C3: whatever add_dependency / remove_dependency calls were made, and
\* whether they succeeded or failed, the graph has no cycle (no self-loop)
\* and every id in a prerequisite list is a key of the mapping.
C3_GraphInvariant ==
    /\ Acyclic(dependencies)
    /\ AllDeps(dependencies) \subseteq DOMAIN dependencies

C3_Witness ==
    /\ gres.op = "add_dependency"
    /\ ~gres.ok
    /\ Len(gres.cycle) = 3

\* C4 (as claimed): a failed add_dependency leaves the graph exactly as it was.
C4_FailedAddLeavesGraphUnchanged ==
    [][(gres'.op = "add_dependency" /\ ~gres'.ok) => dependencies' = dependencies]_vars

\* ------------------------------------------------------------------ Orchestrator
\* HashMap::insert / HashMap::remove
Put(f, k, v) == [x \in DOMAIN f \cup {k} |-> IF x = k THEN v ELSE f[x]]

Del(f, k) == [x \in DOMAIN f \ {k} |-> f[x]]

\* SessionStatus::is_terminal
IsTerminal(status) == status \in {Completed, TimedOut, Failed}

\* Session::new(spec_id, phase)
NewSession(spec_id) == [spec_id |-> spec_id, phase |-> "Tdd"]

\* The four maps as one value; each operator below is one lock region.
OState ==
    [sessions |-> sessions, session_statuses |-> session_statuses,
     session_start_times |-> session_start_times, retry_counts |-> retry_counts]

SetOState(o) ==
    /\ sessions' = o.sessions
    /\ session_statuses' = o.session_statuses
    /\ session_start_times' = o.session_start_times
    /\ retry_counts' = o.retry_counts

\* add_session, first region: the duplicate check and the insert into sessions.
AddSessionInsert(o, id, session) == [o EXCEPT !.sessions = Put(@, id, session)]

\* add_session, second region: the status is registered as Pending.
AddSessionStatus(o, id) == [o EXCEPT !.session_statuses = Put(@, id, Pending)]

AddSession(o, id, session) ==
    IF id \in DOMAIN o.sessions THEN [ok |-> FALSE, o |-> o]
    ELSE [ok |-> TRUE, o |-> AddSessionStatus(AddSessionInsert(o, id, session), id)]

\* remove_session: four regions, one per map.
RemoveFromSessions(o, id) == [o EXCEPT !.sessions = Del(@, id)]

RemoveFromStatuses(o, id) == [o EXCEPT !.session_statuses = Del(@, id)]

RemoveFromStartTimes(o, id) == [o EXCEPT !.session_start_times = Del(@, id)]

RemoveFromRetryCounts(o, id) == [o EXCEPT !.retry_counts = Del(@, id)]

\* remove_session without its last region (mutant).
RemoveSessionKeepRetries(o, id) ==
    RemoveFromStartTimes(RemoveFromStatuses(RemoveFromSessions(o, id), id), id)

RemoveSession(o, id) ==
    RemoveFromRetryCounts(RemoveFromStartTimes(RemoveFromStatuses(
        RemoveFromSessions(o, id), id), id), id)

\* start_session: existence check, then Running, then the start time.
StartSetRunning(o, id) == [o EXCEPT !.session_statuses = Put(@, id, Running)]

StartStamp(o, id, t) == [o EXCEPT !.session_start_times = Put(@, id, t)]

\* start_session without the start time (mutant).
StartSessionNoStamp(o, id, t) ==
    IF id \notin DOMAIN o.sessions THEN [ok |-> FALSE, o |-> o]
    ELSE [ok |-> TRUE, o |-> StartSetRunning(o, id)]

StartSession(o, id, t) ==
    IF id \notin DOMAIN o.sessions THEN [ok |-> FALSE, o |-> o]
    ELSE [ok |-> TRUE, o |-> StartStamp(StartSetRunning(o, id), id, t)]

\* mark_session_completed / mark_session_failed
MarkSessionCompleted(o, id) == [o EXCEPT !.session_statuses = Put(@, id, Completed)]

MarkSessionFailed(o, id) == [o EXCEPT !.session_statuses = Put(@, id, Failed)]

\* retry_counts.get(id).copied().unwrap_or(0)
RetryCount(o, id) == IF id \in DOMAIN o.retry_counts THEN o.retry_counts[id] ELSE 0

\* should_retry with the comparison turned into <= (mutant).
ShouldRetryInclusive(o, id, cfg) == RetryCount(o, id) <= cfg.max_retry_attempts

\* should_retry
ShouldRetry(o, id, cfg) == RetryCount(o, id) < cfg.max_retry_attempts

\* retry_session: the counter, the delay, Pending, start_session.
RetryIncrement(o, id) == [o EXCEPT !.retry_counts = Put(@, id, RetryCount(o, id) + 1)]

RetrySetPending(o, id) == [o EXCEPT !.session_statuses = Put(@, id, Pending)]

RetrySession(o, id, cfg, t) ==
    LET woke == t + cfg.retry_delay_secs
        r == StartSession(RetrySetPending(RetryIncrement(o, id), id), id, woke)
    IN [ok |-> r.ok, o |-> r.o, now |-> woke, restarted |-> r.ok]

\* rollback_session: Failed, then the retry count and the start time are dropped.
RollbackSession(o, id) ==
    RemoveFromStartTimes(RemoveFromRetryCounts(MarkSessionFailed(o, id), id), id)

\* escalate that does not look the session up (mutant).
EscalateUnchecked(o, id, io_ok) == io_ok

\* escalate: the session must exist and the log file must be written.
Escalate(o, id, io_ok) == id \in DOMAIN o.sessions /\ io_ok

\* handle_session_completion
HandleSessionCompletion(o, id) ==
    IF id \notin DOMAIN o.sessions THEN [ok |-> FALSE, o |-> o]
    ELSE [ok |-> TRUE, o |-> RemoveFromRetryCounts(MarkSessionCompleted(o, id), id)]

\* handle_session_failure
HandleSessionFailure(o, id, cfg, t, io_ok) ==
    IF ~Escalate(o, id, io_ok)
    THEN [ok |-> FALSE, o |-> o, now |-> t, restarted |-> FALSE]
    ELSE IF ShouldRetry(o, id, cfg)
         THEN RetrySession(o, id, cfg, t)
         ELSE [ok |-> TRUE, o |-> RollbackSession(o, id), now |-> t, restarted |-> FALSE]

\* determine_session_status with the comparison turned into > (mutant).
TimedOutNowStrict(o, id, cfg, t) ==
    /\ id \in DOMAIN o.session_start_times
    /\ t - o.session_start_times[id] > cfg.session_timeout_secs

\* determine_session_status: the elapsed-time test.
TimedOutNow(o, id, cfg, t) ==
    /\ id \in DOMAIN o.session_start_times
    /\ t - o.session_start_times[id] >= cfg.session_timeout_secs

\* determine_session_status: [status, o]; may store TimedOut.
DetermineSessionStatus(o, id, cfg, t) ==
    LET known == id \in DOMAIN o.session_statuses IN
    IF known /\ IsTerminal(o.session_statuses[id])
    THEN [status |-> o.session_statuses[id], o |-> o]
    ELSE IF TimedOutNow(o, id, cfg, t)
         THEN [status |-> TimedOut,
               o |-> [o EXCEPT !.session_statuses = Put(@, id, TimedOut)]]
         ELSE [status |-> IF known THEN o.session_statuses[id] ELSE Pending, o |-> o]

\* check_all_sessions over the session ids listed in `ids`: [o, events].
RECURSIVE CheckAllSessions(_, _, _, _, _)
CheckAllSessions(o, ids, cfg, t, events) ==
    IF ids = <<>> THEN [o |-> o, events |-> events]
    ELSE LET id == Head(ids)
             known == id \in DOMAIN o.session_statuses
             r == DetermineSessionStatus(o, id, cfg, t)
             changed == ~(known /\ o.session_statuses[id] = r.status)
             ev == IF changed /\ IsTerminal(r.status)
                   THEN <<[type |-> r.status, session_id |-> id]>> ELSE <<>>
         IN CheckAllSessions(r.o, Tail(ids), cfg, t, events \o ev)

\* all_terminal without the total_sessions > 0 conjunct (mutant).
AllTerminalAllowEmpty(o) ==
    \A id \in DOMAIN o.session_statuses : IsTerminal(o.session_statuses[id])

\* calculate_progress / MonitorProgress::all_terminal
AllTerminal(o) ==
    /\ DOMAIN o.session_statuses /= {}
    /\ \A id \in DOMAIN o.session_statuses : IsTerminal(o.session_statuses[id])

\* ------------------------------------------------------------------ session lifecycle
Configs ==
    [max_retry_attempts : 0..MaxRetryAttempts,
     session_timeout_secs : {0, 1},
     retry_delay_secs : {0, 1}]

Init ==
    /\ GraphNew
    /\ config \in Configs
    /\ OrchestratorNew
    /\ LoopEngineNew

\* History of the session started last with no retry count: n = the
\* handle_session_failure calls on it that returned Ok, restarts = how many of
\* them re-started it.  Recording ends one call after the rollback.
Untracked == [id |-> NoSession, n |-> 0, restarts |-> 0]

Untrack(id) == IF seq_fail.id = id THEN Untracked ELSE seq_fail

\* add_session with a Session value; its id is a public field of the caller's value.
DoAddSession ==
    \E id \in SessionIds :
      LET r == AddSession(OState, id, NewSession("SPEC-001")) IN
      /\ SetOState(r.o)
      /\ seq_fail' = IF r.ok THEN Untrack(id) ELSE seq_fail
      /\ UNCHANGED <<svars, gvars, xvars, lvars, cvars, config, now, monitor>>

DoRemoveSession ==
    \E id \in SessionIds :
      /\ SetOState(RemoveSession(OState, id))
      /\ seq_fail' = Untrack(id)
      /\ UNCHANGED <<svars, gvars, xvars, lvars, cvars, config, now, monitor>>

DoStartSession ==
    \E id \in SessionIds :
      LET r == StartSession(OState, id, now) IN
      /\ SetOState(r.o)
      /\ seq_fail' = IF ~r.ok THEN seq_fail
                     ELSE IF RetryCount(OState, id) = 0 THEN [id |-> id, n |-> 0, restarts |-> 0]
                     ELSE Untrack(id)
      /\ UNCHANGED <<svars, gvars, xvars, lvars, cvars, config, now, monitor>>

DoMarkSessionCompleted ==
    \E id \in SessionIds :
      /\ SetOState(MarkSessionCompleted(OState, id))
      /\ UNCHANGED <<svars, gvars, xvars, lvars, cvars, config, now, monitor, seq_fail>>

DoMarkSessionFailed ==
    \E id \in SessionIds :
      /\ SetOState(MarkSessionFailed(OState, id))
      /\ UNCHANGED <<svars, gvars, xvars, lvars, cvars, config, now, monitor, seq_fail>>

DoHandleSessionCompletion ==
    \E id \in SessionIds :
      LET r == HandleSessionCompletion(OState, id) IN
      /\ SetOState(r.o)
      /\ seq_fail' = IF r.ok THEN Untrack(id) ELSE seq_fail
      /\ UNCHANGED <<svars, gvars, xvars, lvars, cvars, config, now, monitor>>

DoHandleSessionFailure ==
    \E id \in SessionIds, io_ok \in BOOLEAN :
      LET r == HandleSessionFailure(OState, id, config, now, io_ok) IN
      /\ r.now <= MaxTime
      /\ SetOState(r.o)
      /\ now' = r.now
      /\ seq_fail' = IF ~r.ok \/ seq_fail.id /= id THEN seq_fail
                     ELSE IF seq_fail.n <= config.max_retry_attempts + 1
                          THEN [seq_fail EXCEPT !.n = @ + 1,
                                                !.restarts = IF r.restarted THEN @ + 1 ELSE @]
                          ELSE Untracked
      /\ UNCHANGED <<svars, gvars, xvars, lvars, cvars, config, monitor>>

\* One iteration of monitor_loop: check_all_sessions and the events it returns.
DoMonitorTick ==
    /\ \E ids \in IterOrders(DOMAIN sessions) :
         LET r == CheckAllSessions(OState, ids, config, now, <<>>) IN
         /\ SetOState(r.o)
         /\ monitor' = r.events
    /\ UNCHANGED <<svars, gvars, xvars, lvars, cvars, config, now, seq_fail>>

\* Time passes.
DoTick ==
    /\ now < MaxTime
    /\ now' = now + 1
    /\ UNCHANGED <<svars, gvars, xvars, lvars, cvars, config, ovars, monitor, seq_fail>>

Next ==
    \/ DoAddSession
    \/ DoRemoveSession
    \/ DoStartSession
    \/ DoMarkSessionCompleted
    \/ DoMarkSessionFailed
    \/ DoHandleSessionCompletion
    \/ DoHandleSessionFailure
    \/ DoMonitorTick
    \/ DoTick

Spec == Init /\ [][Next]_vars

\* ------------------------------------------------------------------ lifecycle properties
\* C6: with max_retry_attempts = N, of the handle_session_failure calls made one
\* after another on a freshly started session, each of the first N adds one to
\* retry_counts[id] and leaves it Running; call N + 1 sets Failed and drops the
\* retry-count and start-time entries (N = 0: the first call rolls back).
C6_RetryThenRollback ==
    [][\A id \in SessionIds :
         (seq_fail.id = id /\ seq_fail'.id = id /\ seq_fail'.n = seq_fail.n + 1) =>
           LET k == seq_fail'.n
               N == config.max_retry_attempts
           IN /\ k <= N =>
                   /\ id \in DOMAIN retry_counts'
                   /\ retry_counts'[id] = RetryCount(OState, id) + 1
                   /\ retry_counts'[id] = k
                   /\ session_statuses'[id] = Running
              /\ k = N + 1 =>
                   /\ session_statuses'[id] = Failed
                   /\ id \notin DOMAIN retry_counts'
                   /\ id \notin DOMAIN session_start_times']_vars

C6_Witness ==
    /\ config.max_retry_attempts >= 1
    /\ seq_fail.id \in SessionIds
    /\ seq_fail.n = config.max_retry_attempts + 1
    /\ seq_fail.restarts = config.max_retry_attempts
    /\ session_statuses[seq_fail.id] = Failed

\* C7 (as claimed): the retry policy re-starts a session at most
\* max_retry_attempts times in total; after the rollback a further
\* handle_session_failure call does not restart it.
C7_AtMostMaxRestarts ==
    seq_fail.id \in SessionIds => seq_fail.restarts <= config.max_retry_attempts

\* C8: a monitor tick stores TimedOut for every Running session whose time
\* since start is at least session_timeout_secs and leaves a Running session
\* below the timeout Running; with session_timeout_secs = 0 every Running
\* session is TimedOut after the tick.
C8_TickTimesOutRunning ==
    [][DoMonitorTick =>
         \A id \in DOMAIN session_statuses :
           session_statuses[id] = Running =>
             /\ id \in DOMAIN session_statuses'
             /\ config.session_timeout_secs = 0 => session_statuses'[id] = TimedOut
             /\ id \in DOMAIN session_start_times =>
                  session_statuses'[id] =
                    IF now - session_start_times[id] >= config.session_timeout_secs
                    THEN TimedOut ELSE Running]_vars

C8_Witness ==
    /\ config.session_timeout_secs = 1
    /\ \E id \in DOMAIN session_statuses :
         /\ session_statuses[id] = TimedOut
         /\ monitor = <<[type |-> TimedOut, session_id |-> id]>>
    /\ \E id \in DOMAIN session_statuses :
         /\ session_statuses[id] = Running
         /\ id \in DOMAIN session_start_times
         /\ now - session_start_times[id] < 1

\* ------------------------------------------------------------------ LoopEngine
\* Status::Completed of a Task.
StatusCompleted == "Completed"

\* A task as next_task reads it: its status and its prerequisite ids.
NewTask(status, deps) == [status |-> status, dependencies |-> deps]

\* Task lists with unique ids: a function from the listed ids to tasks.  A
\* prerequisite is any other task id, listed or not (Task::add_dependency
\* refuses a task's own id).
TaskLists ==
    UNION {{ts \in [D -> [status : TaskStatuses, dependencies : SUBSET TaskIds]] :
              \A t \in D : t \notin ts[t].dependencies} :
             D \in SUBSET TaskIds}

\* LoopState::get_retry_count
GetRetryCount(counts, t) == IF t \in DOMAIN counts THEN counts[t] ELSE 0

\* LoopState::increment_retry
IncrementRetry(counts, t) == Put(counts, t, GetRetryCount(counts, t) + 1)

\* enqueue_task without the contains test (mutant).
EnqueueTaskAlways(q, t) == Append(q, t)

\* LoopState::enqueue_task: push_back unless already queued.
EnqueueTask(q, t) == IF t \in Range(q) THEN q ELSE Append(q, t)

\* The retry-limit test of next_task.
RetryExhausted(count, max) == count >= max

\* tasks.iter().find(dep).is_some_and(Completed) for every prerequisite;
\* the mutant accepts a prerequisite that is not in the task list.
AllDepsCompletedLenient(ts, t) ==
    \A d \in ts[t].dependencies :
      d \in DOMAIN ts => ts[d].status = StatusCompleted

AllDepsCompleted(ts, t) ==
    \A d \in ts[t].dependencies :
      d \in DOMAIN ts /\ ts[d].status = StatusCompleted

\* The while loop of LoopEngine::next_task.
RECURSIVE NextTaskLoop(_, _, _, _, _, _)
NextTaskLoop(q, ts, counts, max, checked_count, queue_size) ==
    IF checked_count >= queue_size \/ q = <<>>
    THEN [result |-> NoTask, queue |-> q]
    ELSE LET task_id == Head(q)
             rest == Tail(q)
         IN IF RetryExhausted(GetRetryCount(counts, task_id), max)
            THEN NextTaskLoop(rest, ts, counts, max, checked_count + 1, queue_size)
            ELSE IF task_id \notin DOMAIN ts
            THEN NextTaskLoop(rest, ts, counts, max, checked_count + 1, queue_size)
            ELSE IF ts[task_id].status = StatusCompleted
            THEN NextTaskLoop(rest, ts, counts, max, checked_count + 1, queue_size)
            ELSE IF AllDepsCompleted(ts, task_id)
            THEN [result |-> task_id, queue |-> rest]
            ELSE NextTaskLoop(EnqueueTask(rest, task_id), ts, counts, max,
                              checked_count + 1, queue_size)

\* The loop bound one above the queue's size at the call (mutant).
NextTaskExtraPass(q, ts, counts, max) == NextTaskLoop(q, ts, counts, max, 0, Len(q) + 1)

\* LoopEngine::next_task
NextTask(q, ts, counts, max) == NextTaskLoop(q, ts, counts, max, 0, Len(q))

\* ------------------------------------------------------------------ loop actions
\* LoopEngine::new(..).with_max_retries(n), and the task list of the spec.
LInit ==
    /\ GraphNew
    /\ config = DefaultConfig
    /\ OrchestratorNew
    /\ task_queue = <<>>
    /\ current_task = NoTask
    /\ is_active = FALSE
    /\ loop_retry_counts = EmptyMap
    /\ max_retries \in 0..MaxRetries
    /\ tasks \in TaskLists
    /\ next_result = NotCalled

LEnqueueTask ==
    \E t \in TaskIds :
      /\ task_queue' = EnqueueTask(task_queue, t)
      /\ next_result' = NotCalled
      /\ UNCHANGED <<svars, gvars, xvars, cvars, config, ovars, now, monitor, seq_fail, current_task,
                     is_active, loop_retry_counts, max_retries, tasks>>

LDequeueTask ==
    /\ task_queue' = IF task_queue = <<>> THEN task_queue ELSE Tail(task_queue)
    /\ next_result' = NotCalled
    /\ UNCHANGED <<svars, gvars, xvars, cvars, config, ovars, now, monitor, seq_fail, current_task,
                   is_active, loop_retry_counts, max_retries, tasks>>

LClearQueue ==
    /\ task_queue' = <<>>
    /\ next_result' = NotCalled
    /\ UNCHANGED <<svars, gvars, xvars, cvars, config, ovars, now, monitor, seq_fail, current_task,
                   is_active, loop_retry_counts, max_retries, tasks>>

LMarkTaskFailed ==
    \E t \in TaskIds :
      /\ GetRetryCount(loop_retry_counts, t) < MaxRetries
      /\ loop_retry_counts' = IncrementRetry(loop_retry_counts, t)
      /\ next_result' = NotCalled
      /\ UNCHANGED <<svars, gvars, xvars, cvars, config, ovars, now, monitor, seq_fail, task_queue,
                     current_task, is_active, max_retries, tasks>>

LNextTask ==
    LET r == NextTask(task_queue, tasks, loop_retry_counts, max_retries) IN
    /\ task_queue' = r.queue
    /\ next_result' = r.result
    /\ UNCHANGED <<svars, gvars, xvars, cvars, config, ovars, now, monitor, seq_fail, current_task,
                   is_active, loop_retry_counts, max_retries, tasks>>

LNext ==
    \/ LEnqueueTask
    \/ LDequeueTask
    \/ LClearQueue
    \/ LMarkTaskFailed
    \/ LNextTask

SpecLoop == LInit /\ [][LNext]_vars

\* ------------------------------------------------------------------ loop properties
\* C9: the task next_task returns has a retry count below max_retries, is in
\* the task list with a status other than Completed, and every one of its
\* prerequisites is in the task list with status Completed.
C9_NextTaskRunnable ==
    next_result \in TaskIds =>
      /\ GetRetryCount(loop_retry_counts, next_result) < max_retries
      /\ next_result \in DOMAIN tasks
      /\ tasks[next_result].status # StatusCompleted
      /\ \A d \in tasks[next_result].dependencies :
           d \in DOMAIN tasks /\ tasks[d].status = StatusCompleted

\* next_task passed over a queued task whose prerequisite is unmet, moved it to
\* the back, and returned a later task that has a completed prerequisite.
C9_Witness ==
    /\ next_result \in TaskIds
    /\ tasks[next_result].dependencies # {}
    /\ \E t \in Range(task_queue) :
         /\ t \in DOMAIN tasks
         /\ tasks[t].status # StatusCompleted
         /\ ~AllDepsCompleted(tasks, t)
         /\ GetRetryCount(loop_retry_counts, t) < max_retries

\* ------------------------------------------------------------------ scheduling
\* Session ids in the order Session::new hands them out (fresh uuids, so which
\* one comes first does not matter).
SessionIdSeq == <<"sess-1", "sess-2", "sess-3">>

\* The order in which cycle detection visits the keys while a spec is
\* registered.  Whether a cycle exists does not depend on it, and the path
\* that is reported is not kept in the orchestrator.
SpecIdOrder == <<"", "SPEC-001", "SPEC-002", "SPEC-003">>

Restrict(pri, S) == SelectSeq(pri, LAMBDA k : k \in S)

\* register_spec: add_session, then the node is created through a dummy
\* prerequisite "" that is removed again.
RegisterSpec(o, g, spec_id, id, pri) ==
    LET a == AddSession(o, id, NewSession(spec_id)) IN
    IF ~a.ok THEN [ok |-> FALSE, o |-> o, graph |-> g, cycle |-> NoCycle]
    ELSE LET d == AddDependency(g, spec_id, EmptyId,
                                Restrict(pri, DOMAIN g \cup {spec_id, EmptyId}))
         IN IF ~d.ok THEN [ok |-> FALSE, o |-> a.o, graph |-> d.graph, cycle |-> d.cycle]
            ELSE [ok |-> TRUE, o |-> a.o, cycle |-> NoCycle,
                  graph |-> RemoveDependency(d.graph, spec_id, EmptyId)]

\* The for loop of register_spec_with_dependencies; `?` leaves at the first error.
RECURSIVE RegisterEdges(_, _, _, _)
RegisterEdges(g, spec_id, depends_on, pri) ==
    IF depends_on = <<>> THEN [ok |-> TRUE, graph |-> g, cycle |-> NoCycle]
    ELSE LET d == AddDependency(g, spec_id, Head(depends_on),
                                Restrict(pri, DOMAIN g \cup {spec_id, Head(depends_on)}))
         IN IF ~d.ok THEN [ok |-> FALSE, graph |-> d.graph, cycle |-> d.cycle]
            ELSE RegisterEdges(d.graph, spec_id, Tail(depends_on), pri)

\* register_spec_with_dependencies
RegisterSpecWithDependencies(o, g, spec_id, depends_on, id, pri) ==
    LET a == AddSession(o, id, NewSession(spec_id)) IN
    IF ~a.ok THEN [ok |-> FALSE, o |-> o, graph |-> g, cycle |-> NoCycle]
    ELSE LET e == RegisterEdges(g, spec_id, depends_on, pri)
         IN [ok |-> e.ok, o |-> a.o, graph |-> e.graph, cycle |-> e.cycle]

\* What sessions.values().find(|s| s.spec_id == spec_id) can return for each
\* spec: the first match in the iteration order of the sessions map, which is
\* any one of the matches.  `found` is one such outcome for every spec at once
\* (the map is not modified during start_all_sessions, and the matches of
\* different specs are disjoint).
FindOutcomes(o) ==
    {found \in [SpecIds -> DOMAIN o.sessions \cup {NoSession}] :
       \A k \in SpecIds :
         LET hits == {id \in DOMAIN o.sessions : o.sessions[id].spec_id = k}
         IN IF hits = {} THEN found[k] = NoSession ELSE found[k] \in hits}

FindSession(o, spec_id, found) ==
    IF spec_id \in DOMAIN found THEN found[spec_id] ELSE NoSession

\* The for loop of start_all_sessions.
RECURSIVE StartInOrder(_, _, _, _, _)
StartInOrder(o, execution_order, found, t, started_sessions) ==
    IF execution_order = <<>>
    THEN [ok |-> TRUE, o |-> o, started |-> started_sessions]
    ELSE LET session_id == FindSession(o, Head(execution_order), found) IN
         IF session_id = NoSession
         THEN StartInOrder(o, Tail(execution_order), found, t, started_sessions)
         ELSE LET s == StartSession(o, session_id, t) IN
              IF ~s.ok THEN [ok |-> FALSE, o |-> s.o, started |-> started_sessions]
              ELSE StartInOrder(s.o, Tail(execution_order), found, t,
                                Append(started_sessions, session_id))

\* start_all_sessions walking the execution order backwards (mutant).
StartAllSessionsBackwards(o, sorted, found, t) ==
    IF ~sorted.ok THEN [ok |-> FALSE, o |-> o, started |-> <<>>]
    ELSE StartInOrder(o, Reverse(sorted.order), found, t, <<>>)

\* start_all_sessions, given the outcome `sorted` of graph.topological_sort()
StartAllSessions(o, sorted, found, t) ==
    IF ~sorted.ok THEN [ok |-> FALSE, o |-> o, started |-> <<>>]
    ELSE StartInOrder(o, sorted.order, found, t, <<>>)

\* ------------------------------------------------------------------ scheduling actions
\* The id Session::new mints next.
FreshSessionId(id) ==
    \E i \in 1..Len(SessionIdSeq) :
      /\ SessionIdSeq[i] = id
      /\ id \notin DOMAIN sessions
      /\ \A j \in 1..(i - 1) : SessionIdSeq[j] \in DOMAIN sessions

SRegisterSpec ==
    \E spec_id \in SpecIds, id \in Range(SessionIdSeq) :
      /\ FreshSessionId(id)
      /\ spec_id \in DOMAIN dependencies => Len(dependencies[spec_id]) < MaxDeps
      /\ LET r == RegisterSpec(OState, dependencies, spec_id, id, SpecIdOrder) IN
         /\ SetOState(r.o)
         /\ dependencies' = r.graph
      /\ UNCHANGED <<svars, gres, xvars, lvars, cvars, config, now, monitor, seq_fail>>

SRegisterSpecWithDependencies ==
    \E spec_id \in SpecIds, id \in Range(SessionIdSeq), n \in 0..MaxPrereqs :
      \E depends_on \in [1..n -> SpecIds] :
        /\ FreshSessionId(id)
        /\ Len(OrDefault(dependencies, spec_id)[spec_id]) + n <= MaxDeps
        /\ LET r == RegisterSpecWithDependencies(OState, dependencies, spec_id,
                                                 depends_on, id, SpecIdOrder) IN
           /\ SetOState(r.o)
           /\ dependencies' = r.graph
        /\ UNCHANGED <<svars, gres, xvars, lvars, cvars, config, now, monitor, seq_fail>>

SStartAllSessions ==
    \E ord \in IterOrders(DOMAIN dependencies) :
      LET sorted == TopologicalSort(dependencies, ord) IN
      \E found \in FindOutcomes(OState) :
        /\ SetOState(StartAllSessions(OState, sorted, found, now).o)
        /\ UNCHANGED <<svars, gvars, xvars, lvars, cvars, config, now, monitor, seq_fail>>

SHandleSessionCompletion ==
    \E id \in Range(SessionIdSeq) :
      /\ id \in DOMAIN session_statuses /\ session_statuses[id] = Running
      /\ SetOState(HandleSessionCompletion(OState, id).o)
      /\ UNCHANGED <<svars, gvars, xvars, lvars, cvars, config, now, monitor, seq_fail>>

SNext ==
    \/ SRegisterSpec
    \/ SRegisterSpecWithDependencies
    \/ SStartAllSessions
    \/ SHandleSessionCompletion

SpecSched == GInit /\ [][SNext]_vars

\* ------------------------------------------------------------------ scheduling properties
\* The sessions registered for a spec.
SessionsOf(spec_id) == {id \in DOMAIN sessions : sessions[id].spec_id = spec_id}

\* C10: no session is Running while a session of a prerequisite of its spec
\* has a status other than Completed.
C10_RunningAfterPrerequisites ==
    \A id \in DOMAIN sessions :
      (id \in DOMAIN session_statuses /\ session_statuses[id] = Running
         /\ sessions[id].spec_id \in DOMAIN dependencies) =>
        \A p \in Range(dependencies[sessions[id].spec_id]) :
          \A pid \in SessionsOf(p) :
            pid \in DOMAIN session_statuses /\ session_statuses[pid] = Completed

\* ------------------------------------------------------------------ concurrent removal
\* The four maps, each behind its own RwLock.
MapNames == {"sessions", "session_statuses", "session_start_times", "retry_counts"}

\* The maps that have an entry for id.
Holding(o, id) == {m \in MapNames : id \in DOMAIN o[m]}

\* remove_session, one lock region at a time: region k is entered with pc = k - 1.
RemoveRegion(o, id, pc) ==
    IF pc = 0 THEN RemoveFromSessions(o, id)
    ELSE IF pc = 1 THEN RemoveFromStatuses(o, id)
    ELSE IF pc = 2 THEN RemoveFromStartTimes(o, id)
    ELSE RemoveFromRetryCounts(o, id)

\* The call in flight after the region entered with pc; the fourth region ends it.
AfterRegion(call, pc) == IF pc = 3 THEN NotRemoving ELSE [call EXCEPT !.pc = pc + 1]

\* get_session
GetSession(o, id) == IF id \in DOMAIN o.sessions THEN o.sessions[id] ELSE NoSession

\* get_session_status
GetSessionStatus(o, id) ==
    IF id \in DOMAIN o.session_statuses THEN o.session_statuses[id] ELSE NoSession

\* calculate_progress: total_sessions = statuses.len()
TotalSessions(o) == Cardinality(DOMAIN o.session_statuses)

\* A remove_session call is between two regions and the maps that held its id
\* when it began no longer agree on whether the id is present.
Torn ==
    /\ removing.id # NoSession
    /\ \E m1, m2 \in removing.held :
         /\ removing.id \notin DOMAIN OState[m1]
         /\ removing.id \in DOMAIN OState[m2]

\* ------------------------------------------------------------------ concurrent actions
CInit ==
    /\ GraphNew
    /\ config \in {c \in Configs : c.max_retry_attempts = 0 /\ c.retry_delay_secs = 0}
    /\ OrchestratorNew
    /\ LoopEngineNew

\* add_session and start_session by the task that owns the session, in a
\* schedule that does not interleave their regions with other tasks.
CAddSession ==
    \E id \in SessionIds :
      /\ removing.id # id
      /\ SetOState(AddSession(OState, id, NewSession("SPEC-001")).o)
      /\ UNCHANGED <<svars, gvars, xvars, lvars, cvars, config, now, monitor, seq_fail>>

CStartSession ==
    \E id \in SessionIds :
      /\ removing.id # id
      /\ SetOState(StartSession(OState, id, now).o)
      /\ UNCHANGED <<svars, gvars, xvars, lvars, cvars, config, now, monitor, seq_fail>>

\* remove_session is called: its first region runs and the lock is released.
CRemoveBegin ==
    \E id \in SessionIds :
      /\ removing = NotRemoving
      /\ SetOState(RemoveRegion(OState, id, 0))
      /\ removing' = [id |-> id, pc |-> 1, held |-> Holding(OState, id)]
      /\ UNCHANGED <<svars, gvars, xvars, lvars, observed, config, now, monitor, seq_fail>>

\* The next region of the remove_session call in flight.
CRemoveStep ==
    /\ removing # NotRemoving
    /\ SetOState(RemoveRegion(OState, removing.id, removing.pc))
    /\ removing' = AfterRegion(removing, removing.pc)
    /\ UNCHANGED <<svars, gvars, xvars, lvars, observed, config, now, monitor, seq_fail>>

\* Read-only calls made by another task while the locks are free.
CGetSession ==
    \E id \in SessionIds :
      /\ observed' = [op |-> "get_session", id |-> id, torn |-> Torn /\ removing.id = id,
                      result |-> GetSession(OState, id)]
      /\ UNCHANGED <<svars, gvars, xvars, lvars, ovars, removing, config, now, monitor, seq_fail>>

CGetSessionStatus ==
    \E id \in SessionIds :
      /\ observed' = [op |-> "get_session_status", id |-> id,
                      torn |-> Torn /\ removing.id = id,
                      result |-> GetSessionStatus(OState, id)]
      /\ UNCHANGED <<svars, gvars, xvars, lvars, ovars, removing, config, now, monitor, seq_fail>>

CCalculateProgress ==
    /\ observed' = [op |-> "calculate_progress", id |-> NoSession, torn |-> Torn,
                    result |-> TotalSessions(OState)]
    /\ UNCHANGED <<svars, gvars, xvars, lvars, ovars, removing, config, now, monitor, seq_fail>>

\* One iteration of monitor_loop, in a schedule that does not interleave it.
CMonitorTick ==
    /\ \E ids \in IterOrders(DOMAIN sessions) :
         LET r == CheckAllSessions(OState, ids, config, now, <<>>) IN
         /\ SetOState(r.o)
         /\ monitor' = r.events
         /\ observed' = [op |-> "monitor_tick", id |-> NoSession, torn |-> Torn,
                         result |-> Len(r.events)]
    /\ UNCHANGED <<svars, gvars, xvars, lvars, removing, config, now, seq_fail>>

CNext ==
    \/ CAddSession
    \/ CStartSession
    \/ CRemoveBegin
    \/ CRemoveStep
    \/ CGetSession
    \/ CGetSessionStatus
    \/ CCalculateProgress
    \/ CMonitorTick

SpecConc == CInit /\ [][CNext]_vars

\* ------------------------------------------------------------------ concurrency properties
\* C5: no get_session, get_session_status, calculate_progress or monitor tick
\* runs at a moment when a remove_session(id) in flight has taken id out of one
\* of the maps that held it and not yet out of another.
C5_RemoveSessionAtomic == ~observed.torn

\* ------------------------------------------------------------------ monitor_loop
SessionStarted == "SessionStarted"

\* One iteration of monitor_loop after interval.tick(): check_all_sessions, the
\* events handed to handle_monitor_event, calculate_progress and the exit test.
\* (The ProgressUpdate event carries no session and is left out of `events`.)
MonitorIteration(o, ids, cfg, t) ==
    LET r == CheckAllSessions(o, ids, cfg, t, <<>>)
    IN [o |-> r.o, events |-> r.events, exit |-> AllTerminal(r.o)]

\* ------------------------------------------------------------------ monitor actions
\* monitor_loop is started on a new orchestrator and runs while the sessions
\* are added, started and finished by other tasks between its iterations.
MInit ==
    /\ GraphNew
    /\ config \in {c \in Configs : c.max_retry_attempts = 0 /\ c.retry_delay_secs = 0}
    /\ OrchestratorNew
    /\ LoopEngineNew

MAddSession ==
    \E id \in SessionIds :
      /\ SetOState(AddSession(OState, id, NewSession("SPEC-001")).o)
      /\ UNCHANGED <<svars, gvars, xvars, lvars, cvars, config, now, monitor, seq_fail>>

MStartSession ==
    \E id \in SessionIds :
      /\ SetOState(StartSession(OState, id, now).o)
      /\ UNCHANGED <<svars, gvars, xvars, lvars, cvars, config, now, monitor, seq_fail>>

MHandleSessionCompletion ==
    \E id \in SessionIds :
      /\ SetOState(HandleSessionCompletion(OState, id).o)
      /\ UNCHANGED <<svars, gvars, xvars, lvars, cvars, config, now, monitor, seq_fail>>

MMarkSessionFailed ==
    \E id \in SessionIds :
      /\ SetOState(MarkSessionFailed(OState, id))
      /\ UNCHANGED <<svars, gvars, xvars, lvars, cvars, config, now, monitor, seq_fail>>

MTick ==
    /\ now < MaxTime
    /\ now' = now + 1
    /\ UNCHANGED <<svars, gvars, xvars, lvars, cvars, config, ovars, monitor, seq_fail>>

MMonitorIteration ==
    /\ monitor_state = "running"
    /\ \E ids \in IterOrders(DOMAIN sessions) :
         LET r == MonitorIteration(OState, ids, config, now) IN
         /\ SetOState(r.o)
         /\ monitor' = r.events
         /\ emitted' = emitted \cup Range(r.events)
         /\ monitor_state' = IF r.exit THEN "returned" ELSE "running"
    /\ UNCHANGED <<svars, gvars, ores, lvars, cvars, config, now, seq_fail>>

MNext ==
    \/ MAddSession
    \/ MStartSession
    \/ MHandleSessionCompletion
    \/ MMarkSessionFailed
    \/ MTick
    \/ MMonitorIteration

SpecMon == MInit /\ [][MNext]_vars

\* ------------------------------------------------------------------ monitor properties
\* C11 (as claimed): a session whose status became Completed, Failed or TimedOut
\* while monitor_loop runs has its SessionCompleted, SessionFailed or
\* SessionTimedOut event emitted by the next iteration.
C11_TerminalEventAtNextTick ==
    [][MMonitorIteration =>
         \A id \in DOMAIN sessions :
           (id \in DOMAIN session_statuses /\ IsTerminal(session_statuses[id])) =>
             [type |-> session_statuses[id], session_id |-> id] \in emitted']_vars

\* C12 (as claimed): a terminal event for a session is emitted only after a
\* SessionStarted event for that session.
C12_StartedBeforeTerminal ==
    \A e \in emitted :
      IsTerminal(e.type) => [type |-> SessionStarted, session_id |-> e.session_id] \in emitted

\* C13: an iteration of monitor_loop breaks out exactly when, at its end, the
\* status map is not empty and holds no Pending and no Running entry; with an
\* empty status map the loop keeps running.
C13_LoopExit ==
    [][MMonitorIteration =>
         /\ monitor_state' = "returned" <=>
              /\ DOMAIN session_statuses' # {}
              /\ \A id \in DOMAIN session_statuses' :
                   session_statuses'[id] \notin {Pending, Running}
         /\ DOMAIN session_statuses' = {} => monitor_state' = "running"]_vars

\* The loop has returned after an iteration that timed the last running
\* session out, another session having been completed before.
C13_Witness ==
    /\ monitor_state = "returned"
    /\ monitor # <<>>
    /\ \E id \in DOMAIN session_statuses : session_statuses[id] = Completed
    /\ \E id \in DOMAIN session_statuses : session_statuses[id] = TimedOut

\* ------------------------------------------------------------------ registration
\* The depends_on slices given to register_spec_with_dependencies.
PrereqLists == {<<>>} \cup {<<b>> : b \in SpecIds}

\* The outcome of a registration call, as the caller sees it.
RegisterOutcome(op, r, id, spec_id, depends_on) ==
    [op |-> op, ok |-> r.ok, id |-> IF r.ok THEN id ELSE NoSession, spec_id |-> spec_id,
     depends_on |-> depends_on, started |-> <<>>, cycle |-> r.cycle, held |-> {},
     asleep |-> {},
     err |-> IF r.ok THEN "none"
             ELSE IF r.cycle # NoCycle THEN "CyclicDependency" ELSE "SessionAlreadyExists"]

\* The key orders cycle detection may use.  Whether a registration fails does
\* not depend on the order, so the orders are told apart only for a failing call.
DetectOrders(ok) == IF ok THEN {SpecIdOrder} ELSE IterOrders(SpecIds \cup {EmptyId})

RRegisterSpec ==
    \E spec_id \in SpecIds, id \in Range(SessionIdSeq) :
      /\ FreshSessionId(id)
      /\ \E pri \in DetectOrders(RegisterSpec(OState, dependencies, spec_id, id,
                                             SpecIdOrder).ok) :
           LET r == RegisterSpec(OState, dependencies, spec_id, id, pri) IN
           /\ SetOState(r.o)
           /\ dependencies' = r.graph
           /\ ores' = RegisterOutcome("register_spec", r, id, spec_id, <<>>)
      /\ UNCHANGED <<svars, gres, monitor_state, emitted, lvars, cvars, config, now, monitor,
                     seq_fail>>

RRegisterSpecWithDependencies ==
    \E spec_id \in SpecIds, id \in Range(SessionIdSeq), depends_on \in PrereqLists :
      /\ FreshSessionId(id)
      /\ \E pri \in DetectOrders(RegisterSpecWithDependencies(OState, dependencies, spec_id,
                                                             depends_on, id, SpecIdOrder).ok) :
           LET r == RegisterSpecWithDependencies(OState, dependencies, spec_id,
                                                 depends_on, id, pri) IN
           /\ SetOState(r.o)
           /\ dependencies' = r.graph
           /\ ores' = RegisterOutcome("register_spec_with_dependencies", r, id, spec_id,
                                      depends_on)
      /\ UNCHANGED <<svars, gres, monitor_state, emitted, lvars, cvars, config, now, monitor,
                     seq_fail>>

RStartAllSessions ==
    \E found \in FindOutcomes(OState), ord \in IterOrders(DOMAIN dependencies) :
      LET r == StartAllSessions(OState, TopologicalSort(dependencies, ord), found, now) IN
      /\ SetOState(r.o)
      /\ ores' = [NoOutcome EXCEPT !.op = "start_all_sessions", !.ok = r.ok,
                                   !.started = r.started]
      /\ UNCHANGED <<svars, gvars, monitor_state, emitted, lvars, cvars, config, now, monitor,
                     seq_fail>>

RNext ==
    \/ RRegisterSpec
    \/ RRegisterSpecWithDependencies
    \/ RStartAllSessions

SpecReg == GInit /\ [][RNext]_vars

\* ------------------------------------------------------------------ registration properties
\* spec a lists spec b as a prerequisite.
HasPrerequisite(a, b) == a \in DOMAIN dependencies /\ b \in Range(dependencies[a])

\* C14: start_all_sessions succeeds; the sessions it returns are Running; for
\* every edge (a has prerequisite b) where both specs have a session, a session
\* of each is in the returned list and the one of b comes first; with nothing
\* registered the list is empty.
C14_StartOrderFollowsGraph ==
    ores.op = "start_all_sessions" =>
      LET L == ores.started IN
      /\ ores.ok
      /\ \A i \in 1..Len(L) : L[i] \in DOMAIN sessions /\ session_statuses[L[i]] = Running
      /\ \A a, b \in SpecIds :
           (HasPrerequisite(a, b) /\ SessionsOf(a) # {} /\ SessionsOf(b) # {}) =>
             \E i, j \in 1..Len(L) :
               /\ j < i
               /\ sessions[L[i]].spec_id = a
               /\ sessions[L[j]].spec_id = b
               /\ \A k \in 1..Len(L) : sessions[L[k]].spec_id = a => k > j
      /\ DOMAIN sessions = {} => L = <<>>

\* A chain of three registered specs was started, prerequisites first.
C14_Witness ==
    /\ ores.op = "start_all_sessions"
    /\ Len(ores.started) = 3
    /\ \E a, b, c \in SpecIds :
         /\ HasPrerequisite(a, b) /\ HasPrerequisite(b, c)
         /\ sessions[ores.started[1]].spec_id = c
         /\ sessions[ores.started[2]].spec_id = b
         /\ sessions[ores.started[3]].spec_id = a

\* ------------------------------------------------------------------ order properties
\* The key has no prerequisites in the graph.
NoPrerequisites(k) == k \notin DOMAIN dependencies \/ dependencies[k] = <<>>

IsPrefix(s, t) == Len(s) <= Len(t) /\ SubSeq(t, 1, Len(s)) = s

\* C16: when register_spec_with_dependencies is called for a spec with a
\* prerequisite that already depends on that spec, directly or transitively,
\* the call fails, the cycle path it reports contains the spec and that
\* prerequisite and only specs lying on a cycle, and what was registered before
\* is kept: every earlier session and its status, the edges of every other
\* spec, and the earlier edges of the spec itself; the closing edge is not kept.
C16_CyclicRegistrationFails ==
    [][ores'.op = "register_spec_with_dependencies" =>
         LET s == ores'.spec_id
             closing == {p \in Range(ores'.depends_on) : s \in Reaches(dependencies, p)}
         IN closing # {} =>
              /\ ~ores'.ok
              /\ s \in Range(ores'.cycle)
              /\ \E p \in closing :
                   /\ p \in Range(ores'.cycle)
                   /\ p \notin Range(dependencies'[s])
                   /\ \A k \in Range(ores'.cycle) :
                        k = s \/ (s \in Reaches(dependencies, k)
                                  /\ (k = p \/ k \in Reaches(dependencies, p)))
              /\ \A id \in DOMAIN sessions :
                   /\ id \in DOMAIN sessions' /\ sessions'[id] = sessions[id]
                   /\ session_statuses'[id] = session_statuses[id]
              /\ \A k \in DOMAIN dependencies :
                   /\ k \in DOMAIN dependencies'
                   /\ k # s => dependencies'[k] = dependencies[k]
                   /\ k = s => IsPrefix(dependencies[k], dependencies'[k])]_vars

\* The third registration closed a cycle through all three specs and failed.
C16_Witness ==
    /\ ores.op = "register_spec_with_dependencies"
    /\ ~ores.ok
    /\ Range(ores.cycle) = SpecIds
    /\ Cardinality(DOMAIN sessions) = 3
    /\ \E id \in DOMAIN session_statuses : session_statuses[id] = Running

\* ------------------------------------------------------------------ sequential calls
\* One caller makes the Orchestrator calls one after another; ores is what the
\* last call returned, and for remove_session the maps that held the id before.
ApiOutcome(op, ok, id) ==
    [NoOutcome EXCEPT !.op = op, !.ok = ok, !.id = id,
                      !.err = IF ok THEN "none"
                              ELSE IF op = "add_session" THEN "SessionAlreadyExists"
                              ELSE "Validation"]

AAddSession ==
    \E id \in SessionIds :
      LET r == AddSession(OState, id, NewSession("SPEC-001")) IN
      /\ SetOState(r.o)
      /\ ores' = ApiOutcome("add_session", r.ok, id)
      /\ UNCHANGED <<svars, gvars, monitor_state, emitted, lvars, cvars, config, now, monitor,
                     seq_fail>>

AStartSession ==
    \E id \in SessionIds :
      LET r == StartSession(OState, id, now) IN
      /\ SetOState(r.o)
      /\ ores' = ApiOutcome("start_session", r.ok, id)
      /\ UNCHANGED <<svars, gvars, monitor_state, emitted, lvars, cvars, config, now, monitor,
                     seq_fail>>

ARemoveSession ==
    \E id \in SessionIds :
      /\ SetOState(RemoveSession(OState, id))
      /\ ores' = [ApiOutcome("remove_session", TRUE, id) EXCEPT !.held = Holding(OState, id)]
      /\ UNCHANGED <<svars, gvars, monitor_state, emitted, lvars, cvars, config, now, monitor,
                     seq_fail>>

AHandleSessionCompletion ==
    \E id \in SessionIds :
      LET r == HandleSessionCompletion(OState, id) IN
      /\ SetOState(r.o)
      /\ ores' = ApiOutcome("handle_session_completion", r.ok, id)
      /\ UNCHANGED <<svars, gvars, monitor_state, emitted, lvars, cvars, config, now, monitor,
                     seq_fail>>

AHandleSessionFailure ==
    \E id \in SessionIds, io_ok \in BOOLEAN :
      LET r == HandleSessionFailure(OState, id, config, now, io_ok) IN
      /\ r.now <= MaxTime
      /\ SetOState(r.o)
      /\ now' = r.now
      /\ ores' = ApiOutcome("handle_session_failure", r.ok, id)
      /\ UNCHANGED <<svars, gvars, monitor_state, emitted, lvars, cvars, config, monitor, seq_fail>>

\* escalate(id, level, reason): the session is looked up, the log file written.
AEscalate ==
    \E id \in SessionIds, io_ok \in BOOLEAN :
      /\ ores' = ApiOutcome("escalate", Escalate(OState, id, io_ok), id)
      /\ UNCHANGED <<svars, gvars, monitor_state, emitted, lvars, cvars, config, ovars, now,
                     monitor, seq_fail>>

ANext ==
    \/ AAddSession
    \/ AEscalate
    \/ AStartSession
    \/ ARemoveSession
    \/ AHandleSessionCompletion
    \/ AHandleSessionFailure

SpecApi == Init /\ [][ANext]_vars

\* C17: with one caller, right after add_session(s) returns Ok the status of
\* s.id is Pending, and right after start_session(id) returns Ok the status of
\* id is Running and session_start_times has an entry for id.
C17_StatusAfterAddAndStart ==
    /\ (ores.op = "add_session" /\ ores.ok) =>
         /\ ores.id \in DOMAIN session_statuses
         /\ session_statuses[ores.id] = Pending
    /\ (ores.op = "start_session" /\ ores.ok) =>
         /\ ores.id \in DOMAIN session_statuses
         /\ session_statuses[ores.id] = Running
         /\ ores.id \in DOMAIN session_start_times

\* start_session has just returned Ok, after an earlier retry delay moved the
\* clock, while another session added before is still Pending.
C17_Witness ==
    /\ ores.op = "start_session" /\ ores.ok
    /\ now > 0
    /\ session_statuses[ores.id] = Running
    /\ session_start_times[ores.id] = now
    /\ \E other \in DOMAIN session_statuses : session_statuses[other] = Pending

\* C18: with one caller, right after remove_session(id) returns, id has no
\* entry in sessions, session_statuses, session_start_times or retry_counts,
\* whichever of the maps held it before the call.
C18_RemovedFromAllMaps ==
    ores.op = "remove_session" => Holding(OState, ores.id) = {}

\* remove_session has just returned for a session that had an entry in all
\* four maps: it was added, started, and failed with a retry.
C18_Witness ==
    /\ ores.op = "remove_session"
    /\ ores.held = MapNames
    /\ Holding(OState, ores.id) = {}

\* ------------------------------------------------------------------ snapshot and dry-run plan
\* The spec ids the orchestrate command and its snapshot are exercised with.
SnapshotSpecIds == {"SPEC-001", "SPEC-002"}

\* The spec id lists given to OrchestratorState::new: different specs in any
\* order, or one spec named twice.
SpecIdLists ==
    UNION {IterOrders(S) : S \in SUBSET SnapshotSpecIds}
      \cup {<<a, a>> : a \in SnapshotSpecIds}

\* Vec::contains
Contains(s, x) == x \in Range(s)

\* if !list.contains(x) { list.push(x) }
PushIfAbsent(s, x) == IF Contains(s, x) THEN s ELSE Append(s, x)

\* dependencies.get(spec_id), an absent key read as no prerequisites
DepsOf(st, spec_id) ==
    IF spec_id \in DOMAIN st.dependencies THEN st.dependencies[spec_id] ELSE <<>>

\* OrchestratorState::add_dependency
StateAddDependency(st, spec_id, depends_on) ==
    [st EXCEPT !.dependencies = Put(@, spec_id, Append(DepsOf(st, spec_id), depends_on))]

\* OrchestratorState::mark_completed
MarkCompleted(st, spec_id) ==
    [st EXCEPT !.pending = Retain(@, spec_id), !.running = Retain(@, spec_id),
               !.completed = PushIfAbsent(@, spec_id)]

\* OrchestratorState::mark_failed
MarkFailed(st, spec_id) ==
    [st EXCEPT !.pending = Retain(@, spec_id), !.running = Retain(@, spec_id),
               !.failed = PushIfAbsent(@, spec_id)]

\* OrchestratorState::mark_running
MarkRunning(st, spec_id) ==
    [st EXCEPT !.pending = Retain(@, spec_id), !.running = PushIfAbsent(@, spec_id)]

\* OrchestratorState::remaining_specs
RemainingSpecs(st) == st.pending \o st.running

\* OrchestratorState::is_complete
IsComplete(st) == st.pending = <<>> /\ st.running = <<>>

\* calculate_execution_waves, the can_run test of one spec against the local
\* completed list.
CanRun(st, spec_id, completed) ==
    \A dep \in Range(DepsOf(st, spec_id)) : Contains(completed, dep)

\* calculate_execution_waves, the for loop that collects current_wave.
CurrentWave(st, remaining, completed) ==
    LET can_run(spec_id) == CanRun(st, spec_id, completed) IN SelectSeq(remaining, can_run)

\* calculate_execution_waves, the while loop.
RECURSIVE WavesLoop(_, _, _, _)
WavesLoop(st, remaining, completed, waves) ==
    IF remaining = <<>> THEN waves
    ELSE LET current_wave == CurrentWave(st, remaining, completed)
             left(spec_id) == ~Contains(current_wave, spec_id)
         IN IF current_wave = <<>> THEN waves
            ELSE WavesLoop(st, SelectSeq(remaining, left), completed \o current_wave,
                           Append(waves, current_wave))

\* calculate_execution_waves
CalculateExecutionWaves(st) == WavesLoop(st, st.spec_ids, <<>>, <<>>)

\* execute_resume with dry_run: the plan is computed over a copy of the restored
\* snapshot whose spec_ids are the remaining specs.
ResumePlan(st) == CalculateExecutionWaves([st EXCEPT !.spec_ids = RemainingSpecs(st)])

\* execute_normal creates the snapshot for the spec ids of the command line.
PNew ==
    /\ state = OrchestratorStateNew(<<>>)
    /\ \E spec_ids \in SpecIdLists : state' = OrchestratorStateNew(spec_ids)
    /\ plan' = NotCalled
    /\ UNCHANGED <<gvars, xvars, lvars, cvars, config, ovars, now, monitor, seq_fail, run, evars, kvars>>

PAddDependency ==
    \E spec_id, depends_on \in SnapshotSpecIds :
      /\ Len(DepsOf(state, spec_id)) < MaxPrereqs
      /\ state' = StateAddDependency(state, spec_id, depends_on)
      /\ plan' = NotCalled
      /\ UNCHANGED <<gvars, xvars, lvars, cvars, config, ovars, now, monitor, seq_fail, run, evars, kvars>>

PMarkCompleted ==
    \E spec_id \in SnapshotSpecIds :
      /\ state' = MarkCompleted(state, spec_id)
      /\ plan' = NotCalled
      /\ UNCHANGED <<gvars, xvars, lvars, cvars, config, ovars, now, monitor, seq_fail, run, evars, kvars>>

PMarkFailed ==
    \E spec_id \in SnapshotSpecIds :
      /\ state' = MarkFailed(state, spec_id)
      /\ plan' = NotCalled
      /\ UNCHANGED <<gvars, xvars, lvars, cvars, config, ovars, now, monitor, seq_fail, run, evars, kvars>>

PMarkRunning ==
    \E spec_id \in SnapshotSpecIds :
      /\ state' = MarkRunning(state, spec_id)
      /\ plan' = NotCalled
      /\ UNCHANGED <<gvars, xvars, lvars, cvars, config, ovars, now, monitor, seq_fail, run, evars, kvars>>

\* execute_resume(dry_run = true) on the snapshot as saved; it returns before
\* any plan when the snapshot is complete.
PExecuteResume ==
    /\ ~IsComplete(state)
    /\ plan' = ResumePlan(state)
    /\ UNCHANGED <<gvars, xvars, lvars, cvars, config, ovars, now, monitor, seq_fail, state, run, evars, kvars>>

PNext ==
    \/ PNew
    \/ PAddDependency
    \/ PMarkCompleted
    \/ PMarkFailed
    \/ PMarkRunning
    \/ PExecuteResume

SpecSnap == GInit /\ [][PNext]_vars

\* C19: starting from OrchestratorState::new(spec_ids) and after any sequence of
\* mark_completed, mark_failed and mark_running calls, the lists completed,
\* failed, running and pending are pairwise disjoint and every element of them
\* is in spec_ids.
C19_StatusListsDisjoint ==
    LET lists == <<state.completed, state.failed, state.running, state.pending>> IN
    /\ \A i, j \in 1..4 : i # j => Range(lists[i]) \cap Range(lists[j]) = {}
    /\ \A i \in 1..4 : Range(lists[i]) \subseteq Range(state.spec_ids)

\* The remaining specs whose prerequisites are all in the completed list.
ReadySpecs(st) ==
    {spec_id \in Range(RemainingSpecs(st)) :
       \A dep \in Range(DepsOf(st, spec_id)) : Contains(st.completed, dep)}

\* C20: the dry-run plan of a resumed snapshot places every remaining spec whose
\* prerequisites are all in the completed list into a wave; when exactly one
\* such spec remains, the plan is exactly one wave and that wave contains it.
C20_ResumePlanHoldsReadySpecs ==
    plan # NotCalled =>
      /\ \A spec_id \in ReadySpecs(state) :
           \E w \in 1..Len(plan) : Contains(plan[w], spec_id)
      /\ (Cardinality(Range(RemainingSpecs(state))) = 1
            /\ ReadySpecs(state) = Range(RemainingSpecs(state))) =>
           Len(plan) = 1

\* ------------------------------------------------------------------ run_loop
\* The task lists run_loop is driven with: a task has no prerequisite or the
\* one task created before it (the first task: the one created last).
CreatedBefore == [t \in TaskIds |->
                    CHOOSE p \in TaskIds : <<p, t>> \in {<<"TASK-001", "TASK-002">>, <<"TASK-002", "TASK-003">>,
                                                    <<"TASK-003", "TASK-001">>}]

RunTaskLists ==
    {ts \in TaskLists : \A t \in DOMAIN ts : ts[t].dependencies \subseteq {CreatedBefore[t]}}

\* The id lists given to enqueue_tasks.
TaskIdLists == {<<>>} \cup {<<a>> : a \in TaskIds} \cup {<<a, b>> : a, b \in TaskIds}

\* LoopState::enqueue_tasks
RECURSIVE EnqueueTasks(_, _)
EnqueueTasks(q, task_ids) ==
    IF task_ids = <<>> THEN q
    ELSE EnqueueTasks(EnqueueTask(q, Head(task_ids)), Tail(task_ids))

\* run_loop without its status filter (mutant).
PendingTasksUnfiltered(ts, order) == order

\* run_loop: the ids of the tasks of the list whose status is Pending, in
\* list order.
PendingTasks(ts, order) == SelectSeq(order, LAMBDA t : ts[t].status = "Pending")

\* What save_state writes: the LoopState fields that run_loop changes.
LoopSnapshot(q, cur, active) == [task_queue |-> q, current_task |-> cur, is_active |-> active]

\* save_state()?: on an I/O error run_loop returns Err at once.
AfterSave(r, io_ok, pc, q, cur, active) ==
    IF io_ok THEN [r EXCEPT !.pc = pc, !.saved = LoopSnapshot(q, cur, active),
                            !.result = IF pc = "idle" THEN "Ok" ELSE NotCalled]
    ELSE [r EXCEPT !.pc = "idle", !.result = "Err"]

\* run_loop up to the first test of the while loop: enqueue_tasks, start, save.
RunLoopBegin ==
    /\ run.pc = "idle"
    /\ \E order \in IterOrders(DOMAIN tasks), io_ok \in BOOLEAN :
         LET pending_tasks == PendingTasks(tasks, order)
             q == EnqueueTasks(task_queue, pending_tasks)
         IN /\ task_queue' = q
            /\ is_active' = TRUE
            /\ run' = AfterSave([RunIdle EXCEPT !.before = task_queue,
                                                !.enqueued = pending_tasks],
                                io_ok, "loop", q, current_task, TRUE)
    /\ UNCHANGED <<state, plan, evars, kvars, gvars, xvars, cvars, config, ovars, now, monitor, seq_fail,
                   current_task, loop_retry_counts, max_retries, tasks, next_result>>

\* The loop body up to its first save: dequeue_task, set_current_task(Some).
RunLoopTake ==
    /\ run.pc = "loop"
    /\ task_queue # <<>>
    /\ is_active
    /\ \E io_ok \in BOOLEAN :
         /\ task_queue' = Tail(task_queue)
         /\ current_task' = Head(task_queue)
         /\ run' = AfterSave([run EXCEPT !.currents = Append(@, Head(task_queue))],
                             io_ok, "task", Tail(task_queue), Head(task_queue), is_active)
    /\ UNCHANGED <<state, plan, evars, kvars, gvars, xvars, cvars, config, ovars, now, monitor, seq_fail,
                   is_active, loop_retry_counts, max_retries, tasks, next_result>>

\* The rest of the loop body: set_current_task(None), save.
RunLoopRelease ==
    /\ run.pc = "task"
    /\ \E io_ok \in BOOLEAN :
         /\ current_task' = NoTask
         /\ run' = AfterSave(run, io_ok, "loop", task_queue, NoTask, is_active)
    /\ UNCHANGED <<state, plan, evars, kvars, gvars, xvars, cvars, config, ovars, now, monitor, seq_fail,
                   task_queue, is_active, loop_retry_counts, max_retries, tasks, next_result>>

\* The loop is left (queue empty, or paused); stop and save when the queue is
\* empty; return Ok.
RunLoopEnd ==
    /\ run.pc = "loop"
    /\ task_queue = <<>> \/ ~is_active
    /\ IF task_queue = <<>>
       THEN \E io_ok \in BOOLEAN :
              /\ is_active' = FALSE
              /\ current_task' = NoTask
              /\ run' = AfterSave(run, io_ok, "idle", task_queue, NoTask, FALSE)
       ELSE /\ run' = [run EXCEPT !.pc = "idle", !.result = "Ok"]
            /\ UNCHANGED <<is_active, current_task>>
    /\ UNCHANGED <<state, plan, evars, kvars, gvars, xvars, cvars, config, ovars, now, monitor, seq_fail,
                   task_queue, loop_retry_counts, max_retries, tasks, next_result>>

\* The other calls take &mut self, so they run only between run_loop calls.
EEnqueueTask ==
    /\ run.pc = "idle"
    /\ \E t \in TaskIds : task_queue' = EnqueueTask(task_queue, t)
    /\ run' = RunIdle
    /\ UNCHANGED <<state, plan, evars, kvars, gvars, xvars, cvars, config, ovars, now, monitor, seq_fail,
                   current_task, is_active, loop_retry_counts, max_retries, tasks,
                   next_result>>

EEnqueueTasks ==
    /\ run.pc = "idle"
    /\ \E task_ids \in TaskIdLists : task_queue' = EnqueueTasks(task_queue, task_ids)
    /\ run' = RunIdle
    /\ UNCHANGED <<state, plan, evars, kvars, gvars, xvars, cvars, config, ovars, now, monitor, seq_fail,
                   current_task, is_active, loop_retry_counts, max_retries, tasks,
                   next_result>>

EDequeueTask ==
    /\ run.pc = "idle"
    /\ task_queue' = IF task_queue = <<>> THEN task_queue ELSE Tail(task_queue)
    /\ run' = RunIdle
    /\ UNCHANGED <<state, plan, evars, kvars, gvars, xvars, cvars, config, ovars, now, monitor, seq_fail,
                   current_task, is_active, loop_retry_counts, max_retries, tasks,
                   next_result>>

EClearQueue ==
    /\ run.pc = "idle"
    /\ task_queue' = <<>>
    /\ run' = RunIdle
    /\ UNCHANGED <<state, plan, evars, kvars, gvars, xvars, cvars, config, ovars, now, monitor, seq_fail,
                   current_task, is_active, loop_retry_counts, max_retries, tasks,
                   next_result>>

ENextTask ==
    /\ run.pc = "idle"
    /\ task_queue' = NextTask(task_queue, tasks, loop_retry_counts, max_retries).queue
    /\ run' = RunIdle
    /\ UNCHANGED <<state, plan, evars, kvars, gvars, xvars, cvars, config, ovars, now, monitor, seq_fail,
                   current_task, is_active, loop_retry_counts, max_retries, tasks,
                   next_result>>

\* LoopEngine::with_max_retries(n) and the task list of the spec.
EInit ==
    /\ GraphNew
    /\ config = DefaultConfig
    /\ OrchestratorNew
    /\ task_queue = <<>>
    /\ current_task = NoTask
    /\ is_active = FALSE
    /\ loop_retry_counts = EmptyMap
    /\ max_retries \in 0..MaxRetries
    /\ tasks \in RunTaskLists
    /\ next_result = NotCalled

RunLoopStep == RunLoopTake \/ RunLoopRelease \/ RunLoopEnd

ENext ==
    \/ RunLoopBegin
    \/ RunLoopTake
    \/ RunLoopRelease
    \/ RunLoopEnd
    \/ EEnqueueTask
    \/ EEnqueueTasks
    \/ EDequeueTask
    \/ EClearQueue
    \/ ENextTask

SpecRun == EInit /\ [][ENext]_vars

\* run_loop has no await that can suspend it for good: once called it runs on.
SpecRunFair == SpecRun /\ WF_vars(RunLoopStep)

\* C21: run_loop makes a task the current task only if every prerequisite of
\* that task is Completed and the retry count of the task is below max_retries.
C21_RunLoopGatesCurrentTask ==
    (run.pc = "task" /\ current_task \in DOMAIN tasks) =>
      /\ AllDepsCompleted(tasks, current_task)
      /\ GetRetryCount(loop_retry_counts, current_task) < max_retries

\* The queue run_loop works through: what was queued before the call, then the
\* Pending tasks of the list that were not queued yet, in list order.
QueuedByRun == EnqueueTasks(run.before, PendingTasks(tasks, run.enqueued))

\* C22: for every task list run_loop terminates; it enqueues exactly the tasks
\* of the list whose status is Pending, makes each queued task the current task
\* exactly once in FIFO order, the saved state equal to the state in memory
\* after every change, and it returns with an empty queue, is_active = false
\* and no current task.
C22_RunLoopTerminates ==
    /\ [](run.pc # "idle" =>
            /\ Range(run.enqueued) = {t \in DOMAIN tasks : tasks[t].status = "Pending"}
            /\ run.saved = LoopSnapshot(task_queue, current_task, is_active)
            /\ run.currents \o task_queue = QueuedByRun
            /\ run.pc = "task" => current_task = run.currents[Len(run.currents)])
    /\ [](run.result = "Ok" =>
            /\ run.currents = QueuedByRun
            /\ \A t \in Range(QueuedByRun) : Count(run.currents, t) = 1
            /\ run.saved = LoopSnapshot(task_queue, current_task, is_active)
            /\ task_queue = <<>> /\ ~is_active /\ current_task = NoTask)
    /\ (run.pc # "idle" ~> run.pc = "idle")

\* run_loop has returned Ok after working through a task that was queued
\* before the call and two Pending tasks of a list that also holds a task that
\* is not Pending.
C22_Witness ==
    /\ run.result = "Ok"
    /\ Len(run.currents) = 3
    /\ Len(run.before) = 1
    /\ Len(run.enqueued) = 2
    /\ run.currents[1] \notin Range(run.enqueued)

\* C23: after any sequence of enqueue_task, enqueue_tasks, dequeue_task,
\* clear_queue, next_task and run_loop calls on a LoopState that starts empty,
\* no TaskId is in the task queue more than once.
C23_QueueHasNoDuplicates ==
    \A i, j \in 1..Len(task_queue) : task_queue[i] = task_queue[j] => i = j

\* Three tasks are queued after next_task moved a blocked task to the back.
C23_Witness ==
    /\ Len(task_queue) = 3
    /\ run.pc = "idle"
    /\ task_queue[1] = "TASK-003" /\ task_queue[3] = "TASK-001"

\* C24: start_session, escalate, handle_session_completion and
\* handle_session_failure called with a SessionId that has no registered session
\* fail with a Validation error and leave sessions, session_statuses,
\* session_start_times and retry_counts unchanged.
C24_UnknownSessionRejected ==
    [][(/\ ores'.op \in {"start_session", "escalate", "handle_session_completion",
                         "handle_session_failure"}
        /\ ores'.id \notin DOMAIN sessions)
       => (~ores'.ok /\ ores'.err = "Validation" /\ UNCHANGED ovars)]_vars

\* handle_session_failure has just been refused for an id without a session
\* while another session is Running with a retry counted.
C24_Witness ==
    /\ ores.op = "handle_session_failure"
    /\ ~ores.ok
    /\ ores.id \notin DOMAIN sessions
    /\ \E other \in DOMAIN sessions :
         /\ session_statuses[other] = Running
         /\ RetryCount(OState, other) > 0

\* ------------------------------------------------------------------ Workflow
Phases == Range(PhaseAll)

\* The phase lists workflows are built with: the standard one, the custom one
\* of the repository's tests, and every list of one or two of the first three
\* phases.
WorkflowPhaseLists ==
    {PhaseAll, <<"Spec", "Tdd", "Review">>}
      \cup {<<a>> : a \in {"Spec", "Tasks", "Tdd"}}
      \cup {<<a, b>> : a, b \in {"Spec", "Tasks", "Tdd"}}

\* Phase::next; "none" for Merge.
PhaseNext(phase) ==
    IF phase = "Merge" THEN "none" ELSE PhaseAll[Position(PhaseAll, phase) + 1]

\* can_transition
CanTransition(from, to) == PhaseNext(from) = to \/ from = to

\* Workflow::is_approved
IsApproved(w, phase) == phase \in DOMAIN w.approvals /\ w.approvals[phase]

\* Workflow::can_proceed
CanProceed(w) == IsApproved(w, w.current_phase)

\* Workflow::approve_phase
ApprovePhase(w, phase) == [w EXCEPT !.approvals = Put(@, phase, TRUE)]

\* Workflow::next_phase
WorkflowNextPhase(w) ==
    IF ~CanProceed(w) THEN [ok |-> FALSE, w |-> w]
    ELSE IF w.current_phase \notin Range(w.phases) THEN [ok |-> FALSE, w |-> w]
    ELSE LET current_index == Position(w.phases, w.current_phase) IN
         IF current_index >= Len(w.phases) THEN [ok |-> FALSE, w |-> w]
         ELSE [ok |-> TRUE, w |-> [w EXCEPT !.current_phase = w.phases[current_index + 1]]]

\* transition(workflow, to)
Transition(w, to) ==
    LET from == w.current_phase IN
    IF ~CanTransition(from, to) THEN [ok |-> FALSE, w |-> w]
    ELSE IF from = to THEN [ok |-> TRUE, w |-> w]
    ELSE IF ~IsApproved(w, from) THEN [ok |-> FALSE, w |-> w]
    ELSE WorkflowNextPhase(w)

\* Workflow::new / Workflow::with_phases: a new workflow replaces the old one.
WWithPhases ==
    \E phases \in WorkflowPhaseLists :
      /\ workflow' = WorkflowWithPhases(phases)
      /\ eres' = [op |-> "with_phases", ok |-> TRUE, arg |-> "none", from |-> "none"]
      /\ UNCHANGED <<state, plan, run, kvars, task_dependencies, spec, gvars, xvars, lvars, cvars,
                     config, ovars, now, monitor, seq_fail>>

WApprovePhase ==
    \E phase \in Phases :
      /\ workflow' = ApprovePhase(workflow, phase)
      /\ eres' = [op |-> "approve_phase", ok |-> TRUE, arg |-> phase,
                  from |-> workflow.current_phase]
      /\ UNCHANGED <<state, plan, run, kvars, task_dependencies, spec, gvars, xvars, lvars, cvars,
                     config, ovars, now, monitor, seq_fail>>

WTransition ==
    \E to \in Phases :
      LET r == Transition(workflow, to) IN
      /\ workflow' = r.w
      /\ eres' = [op |-> "transition", ok |-> r.ok, arg |-> to,
                  from |-> workflow.current_phase]
      /\ UNCHANGED <<state, plan, run, kvars, task_dependencies, spec, gvars, xvars, lvars, cvars,
                     config, ovars, now, monitor, seq_fail>>

WNext ==
    \/ WWithPhases
    \/ WApprovePhase
    \/ WTransition

SpecWorkflow == GInit /\ [][WNext]_vars

\* The phase listed right after the current one in the workflow's own list.
ListedSuccessor(w) ==
    IF w.current_phase \in Range(w.phases)
         /\ Position(w.phases, w.current_phase) < Len(w.phases)
    THEN w.phases[Position(w.phases, w.current_phase) + 1] ELSE "none"

\* C25: for every Workflow, custom phase lists included, transition(workflow,
\* to) returns Ok only when to is the current phase (the workflow is unchanged)
\* or to is the immediate successor of the current phase and the current phase
\* is approved; after Ok the current phase is to, after Err the workflow is
\* unchanged.
C25_TransitionMovesToTarget ==
    [][eres'.op = "transition" =>
         /\ eres'.ok =>
              /\ \/ eres'.arg = workflow.current_phase /\ workflow' = workflow
                 \/ /\ eres'.arg \in {PhaseNext(workflow.current_phase),
                                      ListedSuccessor(workflow)}
                    /\ IsApproved(workflow, workflow.current_phase)
              /\ workflow'.current_phase = eres'.arg
         /\ ~eres'.ok => workflow' = workflow]_vars

\* ------------------------------------------------------------------ Task and Spec entities
\* Task::add_dependency on the task self_id whose dependencies are deps.
TaskAddDependency(deps, self_id, task_id) ==
    IF self_id = task_id THEN [ok |-> FALSE, deps |-> deps]
    ELSE IF Contains(deps, task_id) THEN [ok |-> TRUE, deps |-> deps]
    ELSE [ok |-> TRUE, deps |-> Append(deps, task_id)]

\* Task::remove_dependency: the first occurrence is removed.
TaskRemoveDependency(deps, task_id) ==
    IF Contains(deps, task_id)
    THEN LET pos == Position(deps, task_id) IN
         SubSeq(deps, 1, pos - 1) \o SubSeq(deps, pos + 1, Len(deps))
    ELSE deps

TAddDependency ==
    \E self_id, task_id \in TaskIds :
      LET r == TaskAddDependency(task_dependencies[self_id], self_id, task_id) IN
      /\ task_dependencies' = [task_dependencies EXCEPT ![self_id] = r.deps]
      /\ eres' = [op |-> "add_dependency", ok |-> r.ok, arg |-> task_id, from |-> self_id]
      /\ UNCHANGED <<state, plan, run, kvars, workflow, spec, gvars, xvars, lvars, cvars, config,
                     ovars, now, monitor, seq_fail>>

TRemoveDependency ==
    \E self_id, task_id \in TaskIds :
      /\ task_dependencies' =
           [task_dependencies EXCEPT ![self_id] = TaskRemoveDependency(@, task_id)]
      /\ eres' = [op |-> "remove_dependency", ok |-> TRUE, arg |-> task_id, from |-> self_id]
      /\ UNCHANGED <<state, plan, run, kvars, workflow, spec, gvars, xvars, lvars, cvars, config,
                     ovars, now, monitor, seq_fail>>

TNext ==
    \/ TAddDependency
    \/ TRemoveDependency

SpecTask == GInit /\ [][TNext]_vars

\* C26: Task.add_dependency returns an error whenever the new dependency would
\* close a cycle (the task itself, or a task that already depends on it through
\* other tasks), so the dependency relation over the tasks stays acyclic.
C26_TaskDependenciesAcyclic ==
    /\ [][(/\ eres'.op = "add_dependency"
           /\ \/ eres'.arg = eres'.from
              \/ eres'.from \in Reaches(task_dependencies, eres'.arg))
          => ~eres'.ok]_vars
    /\ []Acyclic(task_dependencies)

\* Spec::add_task
SpecAddTask(sp, task_id) ==
    IF Contains(sp.tasks, task_id) THEN sp ELSE [sp EXCEPT !.tasks = Append(@, task_id)]

\* Spec::remove_task
SpecRemoveTask(sp, task_id) == [sp EXCEPT !.tasks = TaskRemoveDependency(@, task_id)]

\* Spec::change_phase
ChangePhase(sp, new_phase) ==
    IF sp.phase = new_phase THEN [ok |-> TRUE, sp |-> sp]
    ELSE [ok |-> TRUE, sp |-> [sp EXCEPT !.phase = new_phase]]

XAddTask ==
    \E task_id \in TaskIds :
      /\ spec' = SpecAddTask(spec, task_id)
      /\ eres' = [op |-> "add_task", ok |-> TRUE, arg |-> task_id, from |-> spec.phase]
      /\ UNCHANGED <<state, plan, run, kvars, workflow, task_dependencies, gvars, xvars, lvars,
                     cvars, config, ovars, now, monitor, seq_fail>>

XRemoveTask ==
    \E task_id \in TaskIds :
      /\ spec' = SpecRemoveTask(spec, task_id)
      /\ eres' = [op |-> "remove_task", ok |-> TRUE, arg |-> task_id, from |-> spec.phase]
      /\ UNCHANGED <<state, plan, run, kvars, workflow, task_dependencies, gvars, xvars, lvars,
                     cvars, config, ovars, now, monitor, seq_fail>>

XChangePhase ==
    \E new_phase \in Phases :
      LET r == ChangePhase(spec, new_phase) IN
      /\ spec' = r.sp
      /\ eres' = [op |-> "change_phase", ok |-> r.ok, arg |-> new_phase, from |-> spec.phase]
      /\ UNCHANGED <<state, plan, run, kvars, workflow, task_dependencies, gvars, xvars, lvars,
                     cvars, config, ovars, now, monitor, seq_fail>>

XNext ==
    \/ XAddTask
    \/ XRemoveTask
    \/ XChangePhase

SpecEntity == GInit /\ [][XNext]_vars

\* C27: Spec.change_phase(new_phase) succeeds only when new_phase is the
\* current phase or its immediate successor; a change that moves backwards or
\* skips a phase returns an error and leaves the phase unchanged.
C27_ChangePhaseSequential ==
    [][eres'.op = "change_phase" =>
         IF eres'.arg \in {spec.phase, PhaseNext(spec.phase)}
         THEN eres'.ok => spec'.phase = eres'.arg
         ELSE ~eres'.ok /\ spec'.phase = spec.phase]_vars

\* ------------------------------------------------------------------ calls in flight
\* Two tasks call into one Orchestrator.  A call advances one lock region at a
\* time; between two regions every guard has been dropped, so regions of other
\* calls may run.  inflight[p] is the call task p is inside: pc names the
\* region it runs next and seen holds what its earlier regions read.

\* The session the interleaved calls are made on.
RaceSessions == {"sess-1"}

\* determine_session_status, region by region: pc 0 reads session_statuses,
\* pc 1 reads session_start_times and tests the elapsed time, pc 2 stores
\* TimedOut.  No region before pc 2 writes.
DetermineRegion(o, call) ==
    IF call.pc = 2 THEN [o EXCEPT !.session_statuses = Put(@, call.id, TimedOut)] ELSE o

\* The call after its region ran on o: a terminal status read at pc 0 and an
\* elapsed time below the timeout at pc 1 both return.
DetermineAfter(o, call, cfg, t) ==
    IF call.pc = 0
    THEN IF call.id \in DOMAIN o.session_statuses /\ IsTerminal(o.session_statuses[call.id])
         THEN NoCall
         ELSE [call EXCEPT !.pc = 1, !.seen = GetSessionStatus(o, call.id)]
    ELSE IF call.pc = 1 /\ TimedOutNow(o, call.id, cfg, t) THEN [call EXCEPT !.pc = 2]
    ELSE NoCall

\* handle_session_failure, region by region.  pc 0 escalate (get_session),
\* pc 1 should_retry; retry_session: pc 2 the increment, pc 3 the sleep,
\* pc 4 Pending, then start_session: pc 5 the lookup, pc 6 Running, pc 7 the
\* start time; rollback_session: pc 8 Failed, pc 9 retry_counts.remove,
\* pc 10 session_start_times.remove.
FailureRegion(o, call, t) ==
    CASE call.pc = 2 -> RetryIncrement(o, call.id)
      [] call.pc = 4 -> RetrySetPending(o, call.id)
      [] call.pc = 6 -> StartSetRunning(o, call.id)
      [] call.pc = 7 -> StartStamp(o, call.id, t)
      [] call.pc = 8 -> MarkSessionFailed(o, call.id)
      [] call.pc = 9 -> RemoveFromRetryCounts(o, call.id)
      [] call.pc = 10 -> RemoveFromStartTimes(o, call.id)
      [] OTHER -> o

FailureAfter(o, call, cfg, io_ok) ==
    CASE call.pc = 0 -> IF Escalate(o, call.id, io_ok) THEN [call EXCEPT !.pc = 1] ELSE NoCall
      [] call.pc = 1 -> IF ShouldRetry(o, call.id, cfg)
                        THEN [call EXCEPT !.pc = 2, !.seen = "retry"]
                        ELSE [call EXCEPT !.pc = 8, !.seen = "rollback"]
      [] call.pc = 5 -> IF call.id \in DOMAIN o.sessions THEN [call EXCEPT !.pc = 6] ELSE NoCall
      [] call.pc \in {7, 10} -> NoCall
      [] OTHER -> [call EXCEPT !.pc = @ + 1]

KInit ==
    /\ GraphNew
    /\ config \in Configs
    /\ OrchestratorNew
    /\ LoopEngineNew

\* add_session and start_session by the task that owns the session.
KAddSession ==
    \E id \in RaceSessions :
      /\ SetOState(AddSession(OState, id, NewSession("SPEC-001")).o)
      /\ ores' = NoOutcome
      /\ UNCHANGED <<svars, gvars, monitor_state, emitted, lvars, cvars, config, now, monitor,
                     seq_fail>>

KStartSession ==
    \E id \in RaceSessions :
      /\ SetOState(StartSession(OState, id, now).o)
      /\ ores' = NoOutcome
      /\ UNCHANGED <<svars, gvars, monitor_state, emitted, lvars, cvars, config, now, monitor,
                     seq_fail>>

\* mark_session_completed and mark_session_failed: one region each.
KMarkSessionCompleted ==
    \E id \in RaceSessions :
      /\ SetOState(MarkSessionCompleted(OState, id))
      /\ ores' = NoOutcome
      /\ UNCHANGED <<svars, gvars, monitor_state, emitted, lvars, cvars, config, now, monitor,
                     seq_fail>>

KMarkSessionFailed ==
    \E id \in RaceSessions :
      /\ SetOState(MarkSessionFailed(OState, id))
      /\ ores' = NoOutcome
      /\ UNCHANGED <<svars, gvars, monitor_state, emitted, lvars, cvars, config, now, monitor,
                     seq_fail>>

\* The tasks whose handle_session_failure call on id is in the delay of
\* retry_session: the count is incremented and the timer has not fired.
InRetryDelay(id) ==
    {p \in Procs : /\ inflight[p].op = "handle_session_failure"
                   /\ inflight[p].id = id
                   /\ inflight[p].pc = 3}

\* handle_session_completion in a schedule that runs its regions back to back;
\* ores keeps what it returned and which retries were in their delay then.
KHandleSessionCompletion ==
    \E id \in RaceSessions :
      /\ SetOState(HandleSessionCompletion(OState, id).o)
      /\ ores' = [ApiOutcome("handle_session_completion",
                             HandleSessionCompletion(OState, id).ok, id)
                    EXCEPT !.asleep = InRetryDelay(id)]
      /\ UNCHANGED <<svars, gvars, monitor_state, emitted, lvars, cvars, config, now, monitor,
                     seq_fail>>

\* The monitor's check_all_sessions calls determine_session_status on a
\* session id it read from the sessions map: the first region.
KDetermineBegin ==
    \E p \in Procs, id \in RaceSessions :
      /\ inflight[p] = NoCall
      /\ id \in DOMAIN sessions
      /\ LET call == [op |-> "determine_session_status", pc |-> 0, id |-> id, seen |-> "none"]
         IN inflight' = [inflight EXCEPT ![p] = DetermineAfter(OState, call, config, now)]
      /\ UNCHANGED <<state, plan, run, evars, gvars, xvars, lvars, cvars, config, ovars, now,
                     monitor, seq_fail>>

\* The next region of a determine_session_status call.
KDetermineStep ==
    \E p \in Procs :
      /\ inflight[p].op = "determine_session_status"
      /\ SetOState(DetermineRegion(OState, inflight[p]))
      /\ inflight' = [inflight EXCEPT ![p] = DetermineAfter(OState, inflight[p], config, now)]
      /\ UNCHANGED <<state, plan, run, evars, gvars, xvars, lvars, cvars, config, now,
                     monitor, seq_fail>>

\* handle_session_failure is called: escalate looks the session up.
KFailureBegin ==
    \E p \in Procs, id \in RaceSessions, io_ok \in BOOLEAN :
      /\ inflight[p] = NoCall
      /\ LET call == [op |-> "handle_session_failure", pc |-> 0, id |-> id, seen |-> "none"]
         IN inflight' = [inflight EXCEPT ![p] = FailureAfter(OState, call, config, io_ok)]
      /\ ores' = NoOutcome
      /\ UNCHANGED <<state, plan, run, evars, gvars, monitor_state, emitted, lvars, cvars,
                     config, ovars, now, monitor, seq_fail>>

\* The next region of a handle_session_failure call; the sleep of
\* retry_session moves the clock by retry_delay_secs.
KFailureStep ==
    \E p \in Procs :
      LET call == inflight[p]
          woke == IF call.pc = 3 THEN now + config.retry_delay_secs ELSE now
      IN /\ call.op = "handle_session_failure"
         /\ woke <= MaxTime
         /\ SetOState(FailureRegion(OState, call, now))
         /\ inflight' = [inflight EXCEPT ![p] = FailureAfter(OState, call, config, TRUE)]
         /\ now' = woke
         /\ UNCHANGED <<state, plan, run, evars, gvars, xvars, lvars, cvars, config,
                        monitor, seq_fail>>

\* Time passes while no call runs a region.
KTick ==
    /\ now < MaxTime
    /\ now' = now + 1
    /\ UNCHANGED <<svars, gvars, xvars, lvars, cvars, config, ovars, monitor, seq_fail>>

KNext ==
    \/ KAddSession
    \/ KStartSession
    \/ KMarkSessionCompleted
    \/ KMarkSessionFailed
    \/ KHandleSessionCompletion
    \/ KDetermineBegin
    \/ KDetermineStep
    \/ KFailureBegin
    \/ KFailureStep
    \/ KTick

SpecRace == KInit /\ [][KNext]_vars

\* C29: a session whose stored status is Completed or Failed is never changed
\* to TimedOut, whatever the interleaving of the monitor's
\* determine_session_status with mark_session_completed, mark_session_failed
\* and handle_session_completion.
C29_TerminalNeverTimedOut ==
    [][\A id \in DOMAIN session_statuses :
          session_statuses[id] \in {Completed, Failed}
          => ~(id \in DOMAIN session_statuses' /\ session_statuses'[id] = TimedOut)]_vars

\* C30: in every reachable state, calls in flight included, no session's retry
\* count exceeds max_retry_attempts.
C30_RetryCountBounded ==
    \A id \in DOMAIN retry_counts : retry_counts[id] <= config.max_retry_attempts

\* ------------------------------------------------------------------ lock guards
\* What each async operation of the Orchestrator does to the RwLocks of its
\* maps, in source order: a guard is acquired where the code awaits read() or
\* write(), and dropped at drop(guard) or where the guard's scope ends.  An
\* early return ends the sequence after the drop of the guard held there.
Acquire(lock, mode) == [do |-> "acquire", lock |-> lock, mode |-> mode]

Drop(lock) == [do |-> "drop", lock |-> lock, mode |-> "none"]

\* An await on a timer: tokio::time::sleep or Interval::tick.
Sleep == [do |-> "sleep", lock |-> "none", mode |-> "none"]

AddSessionLocks ==
    <<Acquire("sessions", "write"), Drop("sessions"),
      Acquire("session_statuses", "write"), Drop("session_statuses")>>

RemoveSessionLocks ==
    <<Acquire("sessions", "write"), Drop("sessions"),
      Acquire("session_statuses", "write"), Drop("session_statuses"),
      Acquire("session_start_times", "write"), Drop("session_start_times"),
      Acquire("retry_counts", "write"), Drop("retry_counts")>>

\* get_session; get_all_sessions and session_count take the same guard.
GetSessionLocks == <<Acquire("sessions", "read"), Drop("sessions")>>

\* register_spec and register_spec_with_dependencies: add_session has
\* returned before the graph is locked.
RegisterSpecLocks ==
    AddSessionLocks \o <<Acquire("dependency_graph", "write"), Drop("dependency_graph")>>

StartSessionLocks ==
    <<Acquire("sessions", "read"), Drop("sessions"),
      Acquire("session_statuses", "write"), Drop("session_statuses"),
      Acquire("session_start_times", "write"), Drop("session_start_times")>>

\* start_all_sessions with one spec in the execution order.
StartAllSessionsLocks ==
    <<Acquire("dependency_graph", "read"), Drop("dependency_graph"),
      Acquire("sessions", "read"), Drop("sessions")>> \o StartSessionLocks

GetParallelExecutionGroupsLocks ==
    <<Acquire("dependency_graph", "read"), Drop("dependency_graph")>>

\* mark_session_completed and mark_session_failed
MarkSessionLocks == <<Acquire("session_statuses", "write"), Drop("session_statuses")>>

HandleSessionCompletionLocks ==
    GetSessionLocks \o MarkSessionLocks
    \o <<Acquire("retry_counts", "write"), Drop("retry_counts")>>

ShouldRetryLocks == <<Acquire("retry_counts", "read"), Drop("retry_counts")>>

\* retry_session that keeps its retry_counts guard over the sleep (mutant).
RetrySessionLocksGuardOverSleep ==
    <<Acquire("retry_counts", "write"), Sleep, Drop("retry_counts"),
      Acquire("session_statuses", "write"), Drop("session_statuses")>> \o StartSessionLocks

RetrySessionLocks ==
    <<Acquire("retry_counts", "write"), Drop("retry_counts"), Sleep,
      Acquire("session_statuses", "write"), Drop("session_statuses")>> \o StartSessionLocks

RollbackSessionLocks ==
    MarkSessionLocks
    \o <<Acquire("retry_counts", "write"), Drop("retry_counts"),
         Acquire("session_start_times", "write"), Drop("session_start_times")>>

\* handle_session_failure: escalate (get_session), should_retry, then one of
\* retry_session and rollback_session.
HandleSessionFailureLocks(retry) ==
    GetSessionLocks \o ShouldRetryLocks
    \o (IF retry THEN RetrySessionLocks ELSE RollbackSessionLocks)

GetSessionStatusLocks == <<Acquire("session_statuses", "read"), Drop("session_statuses")>>

CalculateProgressLocks == <<Acquire("session_statuses", "read"), Drop("session_statuses")>>

\* determine_session_status by the way it returns: "terminal" after the first
\* read, "timed_out" after storing TimedOut, "unchanged" at the end of the body.
DetermineSessionStatusLocks(returns) ==
    <<Acquire("session_statuses", "read"), Drop("session_statuses")>>
    \o (CASE returns = "terminal" -> <<>>
          [] returns = "timed_out" ->
               <<Acquire("session_start_times", "read"), Drop("session_start_times"),
                 Acquire("session_statuses", "write"), Drop("session_statuses")>>
          [] OTHER -> <<Acquire("session_start_times", "read"), Drop("session_start_times")>>)

\* check_all_sessions with one session; only a status that became Completed
\* makes it read the start time for the event.
CheckAllSessionsLocks(returns, completed_event) ==
    GetSessionLocks \o GetSessionStatusLocks \o DetermineSessionStatusLocks(returns)
    \o (IF completed_event
        THEN <<Acquire("session_start_times", "read"), Drop("session_start_times")>>
        ELSE <<>>)

\* One iteration of monitor_loop.
MonitorLoopLocks(returns, completed_event) ==
    <<Sleep>> \o CheckAllSessionsLocks(returns, completed_event) \o CalculateProgressLocks

\* The operations a task may call, by name and path taken.
LockPrograms ==
    [add_session |-> AddSessionLocks,
     remove_session |-> RemoveSessionLocks,
     get_session |-> GetSessionLocks,
     register_spec |-> RegisterSpecLocks,
     start_session |-> StartSessionLocks,
     start_all_sessions |-> StartAllSessionsLocks,
     get_parallel_execution_groups |-> GetParallelExecutionGroupsLocks,
     mark_session_completed |-> MarkSessionLocks,
     handle_session_completion |-> HandleSessionCompletionLocks,
     handle_session_failure_retry |-> HandleSessionFailureLocks(TRUE),
     handle_session_failure_rollback |-> HandleSessionFailureLocks(FALSE),
     get_session_status |-> GetSessionStatusLocks,
     calculate_progress |-> CalculateProgressLocks,
     monitor_loop_terminal |-> MonitorLoopLocks("terminal", FALSE),
     monitor_loop_completed |-> MonitorLoopLocks("terminal", TRUE),
     monitor_loop_timed_out |-> MonitorLoopLocks("timed_out", FALSE),
     monitor_loop_unchanged |-> MonitorLoopLocks("unchanged", FALSE)]

\* The guards a task holds after the first n events of prog.
HeldAfter(prog, n) ==
    {[lock |-> prog[i].lock, mode |-> prog[i].mode] :
        i \in {k \in 1..n : /\ prog[k].do = "acquire"
                            /\ \A j \in (k + 1)..n :
                                 ~(prog[j].do = "drop" /\ prog[j].lock = prog[k].lock)}}

\* The guards task p holds, and the event its call runs next.
HeldBy(p) ==
    IF inflight[p] = NoCall THEN {}
    ELSE HeldAfter(LockPrograms[inflight[p].op], inflight[p].pc)

NextEvent(p) == LockPrograms[inflight[p].op][inflight[p].pc + 1]

\* Task p is at an await of read() or write().
Acquiring(p) == inflight[p] # NoCall /\ NextEvent(p).do = "acquire"

\* tokio's RwLock: a writer needs the lock free; a reader needs it free of
\* writers and, the queue being fair, of a writer queued behind a holder.
\* A guard the task itself holds blocks it like anyone else's.
CanAcquire(p, lock, mode) ==
    LET holders == {q \in Procs : \E g \in HeldBy(q) : g.lock = lock}
        writers == {q \in Procs : [lock |-> lock, mode |-> "write"] \in HeldBy(q)}
        queued == {q \in Procs \ {p} : /\ Acquiring(q)
                                        /\ NextEvent(q).lock = lock
                                        /\ NextEvent(q).mode = "write"}
    IN IF mode = "write" THEN holders = {}
       ELSE writers = {} /\ (holders = {} \/ queued = {})

\* The runtime can poll task p's call forward by one event.
CanStep(p) ==
    /\ inflight[p] # NoCall
    /\ NextEvent(p).do = "acquire" => CanAcquire(p, NextEvent(p).lock, NextEvent(p).mode)

\* A task calls an operation.
LkCall ==
    \E p \in Procs, op \in DOMAIN LockPrograms :
      /\ inflight[p] = NoCall
      /\ inflight' = [inflight EXCEPT ![p] = [NoCall EXCEPT !.op = op]]
      /\ UNCHANGED <<state, plan, run, evars, gvars, xvars, lvars, cvars, config, ovars, now,
                     monitor, seq_fail>>

\* A call in flight runs its next event; the last event returns.
LkStep ==
    \E p \in Procs :
      /\ CanStep(p)
      /\ inflight' = [inflight EXCEPT ![p] =
                        IF @.pc + 1 = Len(LockPrograms[@.op]) THEN NoCall
                        ELSE [@ EXCEPT !.pc = @ + 1]]
      /\ UNCHANGED <<state, plan, run, evars, gvars, xvars, lvars, cvars, config, ovars, now,
                     monitor, seq_fail>>

LkNext == LkCall \/ LkStep

SpecLock == GInit /\ [][LkNext]_vars

\* C28: a task that waits for a guard or on a timer holds no guard, and while
\* any call is in flight some call can run its next event (no deadlock).
C28_NoGuardAcrossAwait ==
    /\ \A p \in Procs :
         inflight[p] # NoCall /\ NextEvent(p).do \in {"acquire", "sleep"} => HeldBy(p) = {}
    /\ (\E p \in Procs : inflight[p] # NoCall) => \E p \in Procs : CanStep(p)

\* A handle_session_failure call that holds nothing waits for a guard
\* that the other task's call holds.
C28_Witness ==
    \E p, q \in Procs :
      /\ p # q
      /\ inflight[p].op = "handle_session_failure_retry"
      /\ Acquiring(p) /\ ~CanStep(p)
      /\ HeldBy(p) = {}
      /\ \E g \in HeldBy(q) : g.lock = NextEvent(p).lock

\* C31: once handle_session_completion(id) has returned Ok while a
\* handle_session_failure retry for id was in its delay, the status stays
\* Completed as that retry goes on: no step of a call in flight sets it back
\* to Pending or Running.
C31_CompletedSurvivesPendingRetry ==
    [][(/\ ores.op = "handle_session_completion" /\ ores.ok
        /\ ores.asleep # {}
        /\ ores' = ores
        /\ ores.id \in DOMAIN session_statuses
        /\ session_statuses[ores.id] = Completed)
       => (/\ ores.id \in DOMAIN session_statuses'
           /\ session_statuses'[ores.id] \notin {Pending, Running})]_vars

\* C32: between calls, every SessionId that is a key of session_statuses,
\* session_start_times or retry_counts is also a key of sessions.
C32_MapsKeyedBySessions ==
    (DOMAIN session_statuses \cup DOMAIN session_start_times \cup DOMAIN retry_counts)
        \subseteq DOMAIN sessions

\* ------------------------------------------------------------------ monitored run
\* A caller registers specs and calls start_all_sessions; once that call has
\* returned Ok the caller makes no further call, and only the clock and
\* monitor_loop go on.
CallerDone == ores.op = "start_all_sessions" /\ ores.ok

\* The caller registers at most two sessions, over two specs.
MayRegister == Cardinality(DOMAIN sessions) < 2

VRegisterSpec ==
    /\ ~CallerDone /\ MayRegister
    /\ RRegisterSpec
    /\ ores'.spec_id \in SnapshotSpecIds

VRegisterSpecWithDependencies ==
    /\ ~CallerDone /\ MayRegister
    /\ RRegisterSpecWithDependencies
    /\ ores'.spec_id \in SnapshotSpecIds

\* start_all_sessions, early enough for the timeout to fall within MaxTime.
VStartAllSessions ==
    /\ ~CallerDone
    /\ now + config.session_timeout_secs <= MaxTime
    /\ RStartAllSessions

\* interval.tick() lets a second pass.
VTick ==
    /\ now < MaxTime
    /\ now' = now + 1
    /\ UNCHANGED <<svars, gvars, xvars, lvars, cvars, config, ovars, monitor, seq_fail>>

\* One iteration of monitor_loop.
VMonitorIteration == MMonitorIteration

VNext ==
    \/ VRegisterSpec
    \/ VRegisterSpecWithDependencies
    \/ VStartAllSessions
    \/ VTick
    \/ VMonitorIteration

SpecLive == MInit /\ [][VNext]_vars

\* The timer fires and the monitor task is polled.
SpecLiveFair == SpecLive /\ WF_vars(VTick) /\ WF_vars(VMonitorIteration)

\* C33: after registrations (failed ones included) and a start_all_sessions
\* that returned Ok and started a session, with no further call by the caller,
\* monitor_loop eventually returns.
C33_MonitorLoopReturns ==
    (CallerDone /\ ores.started # <<>>) ~> (monitor_state = "returned")

\* ------------------------------------------------------------------ interrupted run
\* The process stops at any point after a save; `aad loop --resume` then loads
\* the state file into a new engine and, unless the loaded state has an empty
\* queue and no current task, calls run_loop with an empty task list.
\* run.loaded keeps the snapshot the new engine started from and the
\* max_retries of the engine that wrote it.  A state file
\* exists while run_loop is under way and after it returned Ok.
ExecuteResume(snapshot, max, io_ok) ==
    IF snapshot.task_queue = <<>> /\ snapshot.current_task = NoTask
    THEN [RunIdle EXCEPT !.result = "Ok", !.loaded = <<[state |-> snapshot, saved_with |-> max]>>, !.saved = snapshot]
    ELSE AfterSave([RunIdle EXCEPT !.before = snapshot.task_queue, !.loaded = <<[state |-> snapshot, saved_with |-> max]>>,
                                   !.saved = snapshot],
                   io_ok, "loop", EnqueueTasks(snapshot.task_queue, <<>>),
                   snapshot.current_task, TRUE)

QExecuteResume ==
    /\ run.pc # "idle" \/ run.result = "Ok"
    /\ \E io_ok \in BOOLEAN :
         LET r == ExecuteResume(run.saved, max_retries, io_ok) IN
         /\ task_queue' = run.saved.task_queue
         /\ current_task' = run.saved.current_task
         /\ is_active' = IF r.pc = "loop" \/ r.result = "Err" THEN TRUE
                         ELSE run.saved.is_active
         /\ max_retries' = 3
         /\ run' = r
    /\ UNCHANGED <<state, plan, evars, kvars, gvars, xvars, cvars, config, ovars, now, monitor,
                   seq_fail, loop_retry_counts, tasks, next_result>>

\* Calls on the engine between run_loop calls.
QEnqueueTask ==
    /\ run.pc = "idle"
    /\ \E t \in DOMAIN tasks : task_queue' = EnqueueTask(task_queue, t)
    /\ next_result' = NotCalled
    /\ UNCHANGED <<svars, gvars, xvars, cvars, config, ovars, now, monitor, seq_fail,
                   current_task, is_active, loop_retry_counts, max_retries, tasks>>

QMarkTaskFailed ==
    /\ run.pc = "idle"
    /\ \E t \in DOMAIN tasks :
         /\ GetRetryCount(loop_retry_counts, t) < MaxRetries
         /\ loop_retry_counts' = IncrementRetry(loop_retry_counts, t)
    /\ next_result' = NotCalled
    /\ UNCHANGED <<svars, gvars, xvars, cvars, config, ovars, now, monitor, seq_fail,
                   task_queue, current_task, is_active, max_retries, tasks>>

QNextTask ==
    /\ run.pc = "idle"
    /\ LET r == NextTask(task_queue, tasks, loop_retry_counts, max_retries) IN
       /\ task_queue' = r.queue
       /\ next_result' = r.result
    /\ UNCHANGED <<svars, gvars, xvars, cvars, config, ovars, now, monitor, seq_fail,
                   current_task, is_active, loop_retry_counts, max_retries, tasks>>

QNext ==
    \/ RunLoopBegin
    \/ RunLoopTake
    \/ RunLoopRelease
    \/ RunLoopEnd
    \/ QExecuteResume

SpecResume == EInit /\ [][QNext]_vars

\* The same engine with the calls between runs, over the task lists of at
\* most two tasks.
ReloadTaskLists == {ts \in RunTaskLists : DOMAIN ts \subseteq {"TASK-001", "TASK-002"}}

QInit == EInit /\ tasks \in ReloadTaskLists

QReloadNext ==
    \/ QNext
    \/ QEnqueueTask
    \/ QMarkTaskFailed
    \/ QNextTask

SpecReload == QInit /\ [][QReloadNext]_vars

\* C34: when the state file was saved with task t as the current task and the
\* resumed loop has finished, t was made the current task again during it.
C34_InterruptedTaskRunsAgain ==
    (/\ run.pc = "idle" /\ run.result = "Ok"
     /\ run.loaded # <<>>
     /\ run.loaded[1].state.current_task # NoTask)
    => \E i \in 1..Len(run.currents) : run.currents[i] = run.loaded[1].state.current_task

\* C35: on an engine restored by load, next_task returns what it would return
\* under the max_retries of the engine that saved the state.
C35_LoadKeepsRetryBound ==
    [][(QNextTask /\ run.loaded # <<>>)
       => next_result' = NextTask(task_queue, tasks, loop_retry_counts,
                                  run.loaded[1].saved_with).result]_vars

\* ------------------------------------------------------------------ registration with two prerequisites
\* The depends_on slices of length two.
PrereqPairs == {<<a, b>> : a, b \in SpecIds}

URegisterSpecWithDependencies ==
    \E spec_id \in SpecIds, id \in Range(SessionIdSeq), depends_on \in PrereqPairs :
      /\ FreshSessionId(id)
      /\ \E pri \in DetectOrders(RegisterSpecWithDependencies(OState, dependencies, spec_id,
                                                             depends_on, id, SpecIdOrder).ok) :
           LET r == RegisterSpecWithDependencies(OState, dependencies, spec_id,
                                                 depends_on, id, pri) IN
           /\ SetOState(r.o)
           /\ dependencies' = r.graph
           /\ ores' = RegisterOutcome("register_spec_with_dependencies", r, id, spec_id,
                                      depends_on)
      /\ UNCHANGED <<svars, gres, monitor_state, emitted, lvars, cvars, config, now, monitor,
                     seq_fail>>

UNext ==
    \/ RRegisterSpec
    \/ URegisterSpecWithDependencies

SpecRegPairs == GInit /\ [][UNext]_vars

\* C36: after a register_spec_with_dependencies call that failed with
\* CyclicDependency the graph holds no edge from the call's spec to one of the
\* listed prerequisites that it did not hold before the call, the
\* prerequisites listed before the one that closed the cycle included.
C36_FailedRegistrationLeavesNoEdge ==
    [][(ores'.op = "register_spec_with_dependencies" /\ ores'.err = "CyclicDependency")
       => \A p \in Range(ores'.depends_on) :
            p \in Range(OrDefault(dependencies', ores'.spec_id)[ores'.spec_id])
            => /\ ores'.spec_id \in DOMAIN dependencies
               /\ p \in Range(dependencies[ores'.spec_id])]_vars

\* ------------------------------------------------------------------ the dummy prerequisite
\* C37: after any sequence of register_spec and register_spec_with_dependencies
\* calls the empty string is not a node of the dependency graph, and it is in
\* neither the order topological_sort gives start_all_sessions nor a wave of
\* get_parallel_execution_groups, whichever order the graph's HashMap iterates.
C37_EmptyStringNotANode ==
    /\ EmptyId \notin DOMAIN dependencies
    /\ \A ord \in IterOrders(DOMAIN dependencies) :
         /\ EmptyId \notin Range(TopologicalSort(dependencies, ord).order)
         /\ \A w \in Range(GetParallelGroups(dependencies, ord).waves) :
              EmptyId \notin Range(w)

\* ------------------------------------------------------------------ earliest waves
\* C38: in the waves get_parallel_groups returns, every node with no
\* prerequisite is in wave 0 and every node of a later wave k has at least
\* one prerequisite in wave k-1.
C38_EarliestWave ==
    (gres.op = "get_parallel_groups" /\ gres.ok) =>
      /\ \A a \in DOMAIN dependencies :
           dependencies[a] = <<>> => (gres.waves /= <<>> /\ a \in Range(gres.waves[1]))
      /\ \A k \in 2..Len(gres.waves) : \A a \in Range(gres.waves[k]) :
           \E b \in Range(dependencies[a]) : b \in Range(gres.waves[k - 1])

\* Three waves, the last node listing a prerequisite of wave 0 and one of wave 1.
C38_Witness ==
    /\ gres.op = "get_parallel_groups"
    /\ gres.ok
    /\ Len(gres.waves) = 3
    /\ \E a \in Range(gres.waves[3]) :
         /\ Range(dependencies[a]) \cap Range(gres.waves[1]) /= {}
         /\ Range(dependencies[a]) \cap Range(gres.waves[2]) /= {}

\* ------------------------------------------------------------------ the task next_task picks
\* A queued task next_task may return: retry count below max_retries, in the
\* task list, not Completed, every prerequisite in the list and Completed.
RunnableTask(t) ==
    /\ GetRetryCount(loop_retry_counts, t) < max_retries
    /\ t \in DOMAIN tasks
    /\ tasks[t].status # StatusCompleted
    /\ \A d \in tasks[t].dependencies :
         d \in DOMAIN tasks /\ tasks[d].status = StatusCompleted

\* A queued task next_task puts back: it may run once its prerequisites have.
BlockedTask(t) ==
    /\ GetRetryCount(loop_retry_counts, t) < max_retries
    /\ t \in DOMAIN tasks
    /\ tasks[t].status # StatusCompleted
    /\ ~RunnableTask(t)

\* C39: next_task returns the first task in queue order that is runnable and
\* None exactly when no queued task is runnable; it examines each task queued
\* at the call at most once: the queue it leaves is the part behind the
\* returned task followed by the blocked tasks in front of it, each once and
\* in their order (all of the queue's blocked tasks when it returns None).
C39_FirstRunnableReturned ==
    [][next_result' # NotCalled =>
         LET runnable == {i \in 1..Len(task_queue) : RunnableTask(task_queue[i])}
             first == IF runnable = {} THEN Len(task_queue) + 1
                      ELSE CHOOSE i \in runnable : \A j \in runnable : i <= j
         IN /\ next_result' = IF runnable = {} THEN NoTask ELSE task_queue[first]
            /\ task_queue' = SubSeq(task_queue, first + 1, Len(task_queue))
                             \o SelectSeq(SubSeq(task_queue, 1, first - 1), BlockedTask)]_vars

\* next_task found two blocked tasks and nothing to run: both are queued again.
C39_Witness ==
    /\ next_result = NoTask
    /\ Len(task_queue) = 2
    /\ \A i \in 1..2 : BlockedTask(task_queue[i])
    /\ \E t \in DOMAIN tasks : RunnableTask(t)

\* ------------------------------------------------------------------ the reported cycle
\* x lists y as a prerequisite once the attempted edge a -> b is in the graph.
EdgeWith(g, a, b, x, y) ==
    \/ x \in DOMAIN g /\ y \in Range(g[x])
    \/ x = a /\ y = b

\* C40: the path of a CyclicDependency error from add_dependency is a cycle of
\* the graph extended with the attempted edge: it is not empty, each element
\* lists the next one as a prerequisite and the last one lists the first.
C40_ReportedPathIsCycle ==
    [][(gres'.op = "add_dependency" /\ ~gres'.ok) =>
         LET c == gres'.cycle
             a == gres'.spec_id
             b == gres'.depends_on
         IN /\ c # <<>>
            /\ \A i \in 1..(Len(c) - 1) : EdgeWith(dependencies, a, b, c[i], c[i + 1])
            /\ EdgeWith(dependencies, a, b, c[Len(c)], c[1])]_vars

\* A refused edge whose reported path has three nodes, from the attempted
\* prerequisite down to the edge's source, the attempted edge closing it.
C40_Witness ==
    /\ gres.op = "add_dependency"
    /\ ~gres.ok
    /\ Len(gres.cycle) = 3
    /\ gres.cycle[3] = gres.spec_id
    /\ gres.cycle[1] = gres.depends_on

====
